---- MODULE Spec2Model ----
(***************************************************************************)
(* Session-and-transport bridge of mirrord: the handshake verifier         *)
(* (operator/src/client.rs, mod upgrade), the Connection Wrapper           *)
(* (operator/src/client.rs, ConnectionWrapper), the session negotiator     *)
(* (OperatorApi::create_session / connect) and the keep-alive supervisor   *)
(* with the proxy lifecycle (cli/src/internal_proxy.rs), and the           *)
(* generation of the fs configuration (config/src/feature/fs/advanced.rs). *)
(*                                                                         *)
(* Each component has its own specification (SpecVerify, SpecWrapper,      *)
(* SpecSession, SpecProxy, SpecFs); the variables of the other components  *)
(* keep their idle values under it.                                        *)
(***************************************************************************)
EXTENDS Integers, Sequences, FiniteSets, TLC

\* Model bounds.
ChannelCap == 1     \* capacity of each queue of a channel pair (CONNECTION_CHANNEL_SIZE, scaled down)
MaxOutbound == 2    \* messages the consumer hands to the outbound sender in one run
MaxInbound == 2     \* items the transport stream yields in one run
MaxDays == 3        \* largest number of whole days a license is still valid for
MaxPings == 3       \* liveness probes sent over the main connection in one run
MaxAttempts == 2    \* upgrade requests made for one session (the negotiation and its reattaches)

VARIABLES
    \* ---- handshake verifier (upgrade::verify_response)
    res,            \* the upgrade response handed to verify_response
    key,            \* the Sec-WebSocket-Key nonce of the request
    verdict,        \* Pending, or the Result verify_response returned
    \* ---- Connection Wrapper and its channel pair (ConnectionWrapper)
    protocol_version,   \* ConnectionWrapper.protocol_version: Option<Version>
    client_chan,        \* queue between client_tx (consumer) and client_rx (wrapper)
    daemon_chan,        \* queue between daemon_tx (wrapper) and daemon_rx (consumer)
    client_tx_open,     \* the consumer still holds the outbound sender
    daemon_rx_open,     \* the consumer still holds the inbound receiver
    consumer_blocked,   \* Some(m): the consumer is suspended in client_tx.send(m)
    wrapper_pc,         \* "select" | "sending" | "exited"
    wrapper_pending,    \* Some(m): the wrapper is suspended in daemon_tx.send(m)
    wrapper_result,     \* Pending, or what start() returned
    close_attempted,    \* start() reached its send of the close frame
    conn_out,           \* frames written to the transport, oldest first
    conn_in,            \* items the transport stream yielded, oldest first
    client_log,         \* messages accepted by the outbound sender, oldest first
    daemon_log,         \* messages pushed to the inbound queue, oldest first
    \* ---- session negotiator (OperatorApi::create_session / connect)
    s_entry,        \* "create_session" | "connect": the entry point called
    s_config,       \* the LayerConfig given
    s_cluster,      \* what the cluster holds: the operator's status object
    s_info,         \* connect: the OperatorSessionInformation given
    s_pc,           \* where the call is
    s_operator,     \* create_session: Some(operator) once fetched
    s_certificate,  \* create_session: the client certificate resolved
    s_metadata,     \* create_session: Some(metadata) once built
    s_session,      \* Some(session_info) once handed to connect_target
    s_request,      \* connect_target: Some(request) once built
    s_trace,        \* the operations performed so far, oldest first
    s_messages,     \* what was reported through the progress collaborator
    s_result,       \* Pending, or what the entry point returned
    s_sent,         \* the x-session-id of every upgrade request made so far, oldest first
    \* ---- internal proxy and its keep-alive task (proxy / create_ping_loop)
    p_env,                  \* the agent connect info environment variable: Option<String>
    p_pc,                   \* where proxy() is
    p_agent_connect_info,   \* proxy(): agent_connect_info once read
    p_trace,                \* the operations proxy() performed so far, oldest first
    p_stdout,               \* what was written to standard output
    p_detached,             \* detach_io() succeeded
    p_result,               \* Pending, or what proxy() returned
    p_cancel_at,            \* where the keep-alive task was when proxy() cancelled it
    p_layer_connected,      \* a layer is connected to the running accept loop
    token_cancelled,        \* the CancellationToken of create_ping_loop is cancelled
    sup_pc,                 \* where the keep-alive task is ("none": not spawned)
    sup_result,             \* Pending, or what the keep-alive task returned
    ping_elapsed,           \* seconds each caller of ping() has spent in its timeout
    ping_resolved,          \* probes that ended after their Ping was queued
    \* ---- fs configuration (AdvancedFsUserConfig -> FsConfig)
    fs_user,        \* the AdvancedFsUserConfig read from the user's configuration
    fs_env,         \* the environment variables the generation reads
    fs_pc,          \* "start", or the function that was called
    fs_generated    \* Pending, or what generate_config / disabled_config returned

verifyVars == <<res, key, verdict>>

chanVars == <<client_chan, daemon_chan, client_tx_open, daemon_rx_open>>

wrapperVars == <<protocol_version, consumer_blocked, wrapper_pc, wrapper_pending,
                 wrapper_result, close_attempted, conn_out, conn_in, client_log, daemon_log>>

sessionVars == <<s_entry, s_config, s_cluster, s_info, s_pc, s_operator, s_certificate,
                 s_metadata, s_session, s_request, s_trace, s_messages, s_result, s_sent>>

proxyVars == <<p_env, p_pc, p_agent_connect_info, p_trace, p_stdout, p_detached,
               p_result, p_cancel_at, p_layer_connected, token_cancelled, sup_pc, sup_result, ping_elapsed,
               ping_resolved>>

fsVars == <<fs_user, fs_env, fs_pc, fs_generated>>

vars == <<verifyVars, chanVars, wrapperVars, sessionVars, proxyVars, fsVars>>

\* What an action of one component leaves alone: the other components.
notVerify == <<chanVars, wrapperVars, sessionVars, proxyVars, fsVars>>
notWrapper == <<verifyVars, sessionVars, proxyVars, fsVars>>
notSession == <<verifyVars, chanVars, consumer_blocked, wrapper_pending, wrapper_result,
                close_attempted,
                conn_out, conn_in, client_log, daemon_log, proxyVars, fsVars>>
notProxy == <<verifyVars, sessionVars, consumer_blocked, wrapper_pending, wrapper_result,
              close_attempted,
              conn_out, conn_in, daemon_log, fsVars, p_layer_connected>>
notFs == <<verifyVars, chanVars, wrapperVars, sessionVars, proxyVars>>

\* Option<T>: None, or Some(v)
None == <<>>
Some(v) == <<v>>
unwrap(o) == o[1]

(***************************************************************************)
(* Strings are sequences of one-character strings, so that a comparison    *)
(* that ignores ASCII case differs from a byte-wise one.                   *)
(***************************************************************************)
UpperCase == <<"A","B","C","D","E","F","G","H","I","J","K","L","M",
               "N","O","P","Q","R","S","T","U","V","W","X","Y","Z">>
LowerCase == <<"a","b","c","d","e","f","g","h","i","j","k","l","m",
               "n","o","p","q","r","s","t","u","v","w","x","y","z">>

\* u8::to_ascii_lowercase
to_ascii_lowercase(c) ==
    IF \E i \in 1..Len(UpperCase) : UpperCase[i] = c
    THEN LowerCase[CHOOSE i \in 1..Len(UpperCase) : UpperCase[i] = c]
    ELSE c

\* str::eq_ignore_ascii_case
eq_ignore_ascii_case(a, b) ==
    /\ Len(a) = Len(b)
    /\ \A i \in 1..Len(a) : to_ascii_lowercase(a[i]) = to_ascii_lowercase(b[i])

\* A byte outside visible ASCII: HeaderValue::to_str fails on it.
OpaqueByte == "\\xff"

\* HeaderValue::to_str(..).ok(): None unless every byte is visible ASCII.
to_str(h) == IF \E i \in 1..Len(h) : h[i] = OpaqueByte THEN None ELSE Some(h)

WEBSOCKET == <<"w","e","b","s","o","c","k","e","t">>
UPGRADE == <<"U","p","g","r","a","d","e">>
\* const WS_PROTOCOL: &str = "v4.channel.k8s.io"
WS_PROTOCOL == <<"v","4",".","c","h","a","n","n","e","l",".","k","8","s",".","i","o">>

\* tungstenite's derive_accept_key: base64(sha1(key ++ GUID)), injective in the key
\* for the purposes of the handshake.
derive_accept_key(k) == <<"s","3","p","P","L","M","B","i","T","x","a","Q","9","k","Y","G","z","z","h","Z","R","b","K","+","x","O","o","=">> \o k

SWITCHING_PROTOCOLS == 101

\* StatusCode::is_client_error / is_server_error
is_client_error(status) == status >= 400 /\ status < 500
is_server_error(status) == status >= 500 /\ status < 600

\* res.into_body().collect().await.ok() and serde_json::from_slice::<ErrorResponse>(..).ok():
\* the body either cannot be read, or is not an ErrorResponse, or is one.
parse_error_response(body) ==
    IF body.kind = "error_response" THEN Some(body.error) ELSE None

\* headers.get(name): None when the header is absent.
header_get(headers, name) == headers[name]

\* Result<T, E>; a call that has not returned yet is Pending.
Ok(v) == [tag |-> "Ok", value |-> v]
Err(e) == [tag |-> "Err", error |-> e]
Pending == [tag |-> "Pending"]

upgrade_header_ok(headers) ==
    LET h == header_get(headers, "upgrade") IN
    /\ h # None
    /\ to_str(unwrap(h)) # None
    /\ eq_ignore_ascii_case(unwrap(to_str(unwrap(h))), WEBSOCKET)

connection_header_ok(headers) ==
    LET h == header_get(headers, "connection") IN
    /\ h # None
    /\ to_str(unwrap(h)) # None
    /\ eq_ignore_ascii_case(unwrap(to_str(unwrap(h))), UPGRADE)

accept_header_ok(headers, k) ==
    LET h == header_get(headers, "sec-websocket-accept") IN
    /\ h # None
    /\ unwrap(h) = derive_accept_key(k)

\* Mutant: the sub-protocol check left out, as in tungstenite's own verification.
protocol_header_ok_skipped(headers) == TRUE

protocol_header_ok(headers) ==
    LET h == header_get(headers, "sec-websocket-protocol") IN
    /\ h # None
    /\ unwrap(h) = WS_PROTOCOL

\* Mutant: the error body is read whatever the class of the status.
status_failure_any_class(r) ==
    LET error_response == parse_error_response(r.body) IN
    IF error_response # None
    THEN Err([kind |-> "Api", error_response |-> unwrap(error_response)])
    ELSE Err([kind |-> "ProtocolSwitch", status |-> r.status])

\* The status branch of verify_response, taken when status != 101.
status_failure(r) ==
    LET error_response ==
            IF is_client_error(r.status) \/ is_server_error(r.status)
            THEN parse_error_response(r.body)
            ELSE None
    IN  IF error_response # None
        THEN Err([kind |-> "Api", error_response |-> unwrap(error_response)])
        ELSE Err([kind |-> "ProtocolSwitch", status |-> r.status])

\* Mutant: every check is made and the last one that fails is reported.
verify_response_last_failure(r, k) ==
    IF r.status # SWITCHING_PROTOCOLS THEN status_failure(r)
    ELSE IF ~protocol_header_ok(r.headers)
        THEN Err([kind |-> "SecWebSocketProtocolMismatch"])
    ELSE IF ~accept_header_ok(r.headers, k)
        THEN Err([kind |-> "SecWebSocketAcceptKeyMismatch"])
    ELSE IF ~connection_header_ok(r.headers)
        THEN Err([kind |-> "MissingConnectionUpgradeHeader"])
    ELSE IF ~upgrade_header_ok(r.headers)
        THEN Err([kind |-> "MissingUpgradeWebSocketHeader"])
    ELSE Ok(r)

\* async fn verify_response(res, key) -> Result<Response<Body>>
verify_response(r, k) ==
    IF r.status # SWITCHING_PROTOCOLS THEN status_failure(r)
    ELSE IF ~upgrade_header_ok(r.headers)
        THEN Err([kind |-> "MissingUpgradeWebSocketHeader"])
    ELSE IF ~connection_header_ok(r.headers)
        THEN Err([kind |-> "MissingConnectionUpgradeHeader"])
    ELSE IF ~accept_header_ok(r.headers, k)
        THEN Err([kind |-> "SecWebSocketAcceptKeyMismatch"])
    ELSE IF ~protocol_header_ok(r.headers)
        THEN Err([kind |-> "SecWebSocketProtocolMismatch"])
    ELSE Ok(r)

(***************************************************************************)
(* Inputs of the verifier.                                                 *)
(***************************************************************************)
Keys == { <<"k","1">>, <<"k","2">> }

StatusCodes == {101, 200, 302, 404, 500}

UpgradeValues ==
    { None } \cup { Some(v) : v \in
        { WEBSOCKET, <<"W","e","b","S","o","c","k","e","t">>,
          <<"h","2","c">>, <<"w","e","b","s","o","c","k","e",OpaqueByte>> } }

ConnectionValues ==
    { None } \cup { Some(v) : v \in
        { UPGRADE, <<"u","p","g","r","a","d","e">>,
          <<"k","e","e","p","-","a","l","i","v","e">>, <<"U","p","g","r","a","d",OpaqueByte>> } }

AcceptValues(k) ==
    { None } \cup { Some(v) : v \in
        { derive_accept_key(k), derive_accept_key(<<"k","0">>),
          [i \in 1..Len(derive_accept_key(k)) |-> to_ascii_lowercase(derive_accept_key(k)[i])] } }

ProtocolValues ==
    { None } \cup { Some(v) : v \in
        { WS_PROTOCOL, <<"v","5",".","c","h","a","n","n","e","l",".","k","8","s",".","i","o">>,
          <<"V","4",".","c","h","a","n","n","e","l",".","k","8","s",".","i","o">> } }

Bodies ==
    { [kind |-> "unreadable"], [kind |-> "not_json"],
      [kind |-> "error_response", error |-> [code |-> 404, reason |-> "NotFound"]],
      [kind |-> "error_response", error |-> [code |-> 500, reason |-> "InternalError"]] }

\* http::Response<Body>, as far as verify_response reads it
Response(status, upgrade, connection, accept, protocol, body) ==
    [status |-> status,
     headers |-> [n \in {"upgrade", "connection", "sec-websocket-accept", "sec-websocket-protocol"} |->
                    CASE n = "upgrade" -> upgrade
                      [] n = "connection" -> connection
                      [] n = "sec-websocket-accept" -> accept
                      [] OTHER -> protocol],
     body |-> body]

Responses(k) ==
    { Response(s, u, c, a, p, b) :
      s \in StatusCodes, u \in UpgradeValues, c \in ConnectionValues,
      a \in AcceptValues(k), p \in ProtocolValues, b \in Bodies }

InitVerify ==
    /\ key \in Keys
    /\ res \in Responses(key)
    /\ verdict = Pending

IdleVerify ==
    /\ key = <<"k","1">>
    /\ res = None
    /\ verdict = Pending

\* connect_ws: let res = verify_response(res, &key).await
VerifyResponse ==
    /\ verdict = Pending
    /\ verdict' = verify_response(res, key)
    /\ UNCHANGED <<res, key>>
    /\ UNCHANGED notVerify

NextVerify == VerifyResponse

(***************************************************************************)
(* Versions and wire messages.                                             *)
(***************************************************************************)
\* semver::Version as <<major, minor, patch>>
Versions == { <<1,2,1>>, <<1,3,0>>, <<2,0,0>> }

\* <Version as Ord>::cmp is Less
version_lt(a, b) ==
    \/ a[1] < b[1]
    \/ a[1] = b[1] /\ a[2] < b[2]
    \/ a[1] = b[1] /\ a[2] = b[2] /\ a[3] < b[3]

\* Ord::min(a, b): a unless b is strictly smaller
version_min(a, b) == IF version_lt(b, a) THEN b ELSE a

Digits == <<"0","1","2","3","4","5","6","7","8","9">>
is_digit(c) == \E i \in 1..Len(Digits) : Digits[i] = c
digit_value(c) == (CHOOSE i \in 1..Len(Digits) : Digits[i] = c) - 1

\* <Version as FromStr>::from_str(..).ok(), for one-digit components
parse_version(str) ==
    IF /\ Len(str) = 5
       /\ str[2] = "." /\ str[4] = "."
       /\ is_digit(str[1]) /\ is_digit(str[3]) /\ is_digit(str[5])
    THEN Some(<<digit_value(str[1]), digit_value(str[3]), digit_value(str[5])>>)
    ELSE None

\* Mutant: the fallback answers with the newest version instead of "1.2.1".
FALLBACK_VERSION_newest == <<"2",".","0",".","0">>

\* "1.2.1".parse().expect("Bad static version")
FALLBACK_VERSION == <<"1",".","2",".","1">>

\* ClientMessage
Ping == [type |-> "Ping"]
SwitchProtocolVersion(v) == [type |-> "SwitchProtocolVersion", version |-> v]
\* a ClientMessage bincode cannot represent
Unrepresentable == [type |-> "Unrepresentable"]
ClientMessages == { Ping, Unrepresentable } \cup { SwitchProtocolVersion(v) : v \in Versions }

\* DaemonMessage
Pong == [type |-> "Pong"]
LogMessage == [type |-> "LogMessage"]
SwitchProtocolVersionResponse(v) == [type |-> "SwitchProtocolVersionResponse", version |-> v]
\* any other DaemonMessage
Close == [type |-> "Close"]
DaemonMessages == { Pong, LogMessage, Close, SwitchProtocolVersionResponse(<<1,2,1>>) }

\* tungstenite Message
Binary(payload) == [frame |-> "Binary", payload |-> payload]
TextFrame == [frame |-> "Text"]
PingFrame == [frame |-> "Ping"]
PongFrame == [frame |-> "Pong"]
CloseFrame == [frame |-> "Close"]

\* bincode::encode_to_vec(message, standard())
encode(m) ==
    IF m = Unrepresentable THEN Err([kind |-> "EncodeError"])
    ELSE Ok(<<"bincode", m>>)

\* a payload that is no encoded DaemonMessage
Garbage == <<"garbage">>

\* bincode::decode_from_slice::<DaemonMessage, _>(payload, standard())
decode(payload) ==
    IF Len(payload) = 2 /\ payload[1] = "bincode" THEN Ok(payload[2]) ELSE Err([kind |-> "DecodeError"])

\* What connection.next() can yield: None at the end of the stream, Some(Err(..))
\* for a transport error, Some(Ok(frame)) otherwise.
StreamItems ==
    { None, Some(Err([kind |-> "WsError"])) }
    \cup { Some(Ok(Binary(<<"bincode", m>>))) : m \in DaemonMessages }
    \cup { Some(Ok(f)) : f \in { Binary(Garbage), TextFrame, PingFrame, PongFrame, CloseFrame } }

(***************************************************************************)
(* Connection Wrapper.                                                     *)
(***************************************************************************)
InitChannel ==
    /\ client_chan = <<>>
    /\ daemon_chan = <<>>
    /\ client_tx_open = TRUE
    /\ daemon_rx_open = TRUE

\* ConnectionWrapper::wrap: two queues, the wrapper task spawned on start()
InitWrapper ==
    /\ InitChannel
    /\ protocol_version \in { None } \cup { Some(v) : v \in Versions }
    /\ consumer_blocked = None
    /\ wrapper_pc = "select"
    /\ wrapper_pending = None
    /\ wrapper_result = Pending
    /\ close_attempted = FALSE
    /\ conn_out = <<>>
    /\ conn_in = <<>>
    /\ client_log = <<>>
    /\ daemon_log = <<>>

IdleWrapper ==
    /\ InitChannel
    /\ protocol_version = None
    /\ consumer_blocked = None
    /\ wrapper_pc = "idle"
    /\ wrapper_pending = None
    /\ wrapper_result = Pending
    /\ close_attempted = FALSE
    /\ conn_out = <<>>
    /\ conn_in = <<>>
    /\ client_log = <<>>
    /\ daemon_log = <<>>

\* start() returns through `?`: the task ends, its channel ends and the transport
\* are dropped, no close frame is attempted.
WrapperFail(e) ==
    /\ wrapper_pc' = "exited"
    /\ wrapper_result' = Err(e)
    /\ wrapper_pending' = None
    /\ UNCHANGED close_attempted

\* start() leaves the loop through `break`: a close frame is attempted, its
\* failure ignored, and start() returns Ok(()).
WrapperBreak ==
    /\ wrapper_pc' = "exited"
    /\ wrapper_result' = Ok("unit")
    /\ wrapper_pending' = None
    /\ close_attempted' = TRUE
    /\ \E sent \in BOOLEAN :
          conn_out' = IF sent THEN Append(conn_out, CloseFrame) ELSE conn_out

\* Mutant: a message that cannot be delivered is discarded and the wrapper goes on.
DaemonTxSend_discards(m) ==
    IF ~daemon_rx_open
    THEN /\ wrapper_pc' = "select"
         /\ wrapper_pending' = None
         /\ UNCHANGED <<daemon_chan, daemon_log, wrapper_result, close_attempted>>
    ELSE IF Len(daemon_chan) < ChannelCap
    THEN /\ daemon_chan' = Append(daemon_chan, m)
         /\ daemon_log' = Append(daemon_log, m)
         /\ wrapper_pc' = "select"
         /\ wrapper_pending' = None
         /\ UNCHANGED <<wrapper_result, close_attempted>>
    ELSE /\ wrapper_pc' = "sending"
         /\ wrapper_pending' = Some(m)
         /\ UNCHANGED <<daemon_chan, daemon_log, wrapper_result, close_attempted>>

\* self.daemon_tx.send(m).await.map_err(|_| ChannelClosed): fails once the receiver
\* is dropped, completes when the queue has room, suspends otherwise.
DaemonTxSend(m) ==
    IF ~daemon_rx_open
    THEN /\ WrapperFail([kind |-> "ChannelClosed"])
         /\ UNCHANGED <<daemon_chan, daemon_log>>
    ELSE IF Len(daemon_chan) < ChannelCap
    THEN /\ daemon_chan' = Append(daemon_chan, m)
         /\ daemon_log' = Append(daemon_log, m)
         /\ wrapper_pc' = "select"
         /\ wrapper_pending' = None
         /\ UNCHANGED <<wrapper_result, close_attempted>>
    ELSE /\ wrapper_pc' = "sending"
         /\ wrapper_pending' = Some(m)
         /\ UNCHANGED <<daemon_chan, daemon_log, wrapper_result, close_attempted>>

\* Mutant: the frame is put in front of what was already written.
handle_client_message_prepends(client_message) ==
    LET payload == encode(client_message) IN
    IF payload.tag = "Err"
    THEN /\ WrapperFail(payload.error)
         /\ UNCHANGED conn_out
    ELSE \E sent \in BOOLEAN :
            IF sent
            THEN /\ conn_out' = <<Binary(payload.value)>> \o conn_out
                 /\ UNCHANGED <<wrapper_pc, wrapper_result, close_attempted,
                                wrapper_pending>>
            ELSE /\ WrapperFail([kind |-> "WsError"])
                 /\ UNCHANGED conn_out

\* handle_client_message: encode, then connection.send(payload.into()).await
handle_client_message(client_message) ==
    LET payload == encode(client_message) IN
    IF payload.tag = "Err"
    THEN /\ WrapperFail(payload.error)
         /\ UNCHANGED conn_out
    ELSE \E sent \in BOOLEAN :
            IF sent
            THEN /\ conn_out' = Append(conn_out, Binary(payload.value))
                 /\ UNCHANGED <<wrapper_pc, wrapper_result, close_attempted,
                              wrapper_pending>>
            ELSE /\ WrapperFail([kind |-> "WsError"])
                 /\ UNCHANGED conn_out

\* Mutant: the requested version is forwarded unmodified.
switch_version_unmodified(operator_protocol_version, version) == version

\* The version a SwitchProtocolVersion request is rewritten to.
switch_version(operator_protocol_version, version) ==
    version_min(operator_protocol_version, version)

\* The response synthesized when the operator's version is unknown.
fallback_response ==
    SwitchProtocolVersionResponse(unwrap(parse_version(FALLBACK_VERSION)))

\* Mutant: the wrapper adopts the version it forwards as the version of the session.
WrapperClientMessage_adopts_version ==
    /\ UNCHANGED notWrapper
    /\ wrapper_pc = "select"
    /\ client_chan # <<>>
    /\ client_chan' = Tail(client_chan)
    /\ LET client_message == Head(client_chan) IN
       IF client_message.type = "SwitchProtocolVersion"
       THEN IF protocol_version # None
            THEN /\ handle_client_message(SwitchProtocolVersion(
                        switch_version(unwrap(protocol_version), client_message.version)))
                 /\ protocol_version' =
                        Some(switch_version(unwrap(protocol_version), client_message.version))
                 /\ UNCHANGED <<daemon_chan, daemon_log>>
            ELSE /\ DaemonTxSend(fallback_response)
                 /\ UNCHANGED <<conn_out, protocol_version>>
       ELSE /\ handle_client_message(client_message)
            /\ UNCHANGED <<daemon_chan, daemon_log, protocol_version>>
    /\ UNCHANGED <<client_tx_open, daemon_rx_open, consumer_blocked, conn_in, client_log>>

\* start(): the client_rx.recv() branch with Some(client_message)
WrapperClientMessage ==
    /\ UNCHANGED notWrapper
    /\ wrapper_pc = "select"
    /\ client_chan # <<>>
    /\ client_chan' = Tail(client_chan)
    /\ LET client_message == Head(client_chan) IN
       IF client_message.type = "SwitchProtocolVersion"
       THEN IF protocol_version # None
            THEN /\ handle_client_message(SwitchProtocolVersion(
                        switch_version(unwrap(protocol_version), client_message.version)))
                 /\ UNCHANGED <<daemon_chan, daemon_log>>
            ELSE /\ DaemonTxSend(fallback_response)
                 /\ UNCHANGED conn_out
       ELSE /\ handle_client_message(client_message)
            /\ UNCHANGED <<daemon_chan, daemon_log>>
    /\ UNCHANGED <<protocol_version, client_tx_open, daemon_rx_open, consumer_blocked,
                   conn_in, client_log>>

\* Mutant: the closed outbound queue is not taken as a reason to leave the loop.
WrapperClientClosed_keeps_waiting ==
    /\ UNCHANGED notWrapper
    /\ wrapper_pc = "select"
    /\ client_chan = <<>>
    /\ ~client_tx_open
    /\ UNCHANGED <<chanVars, wrapperVars>>

\* start(): the client_rx.recv() branch with None (every sender dropped, queue empty)
WrapperClientClosed ==
    /\ UNCHANGED notWrapper
    /\ wrapper_pc = "select"
    /\ client_chan = <<>>
    /\ ~client_tx_open
    /\ WrapperBreak
    /\ UNCHANGED <<chanVars, protocol_version, consumer_blocked, conn_in, client_log,
                   daemon_log>>

\* Mutant: frames that are not binary data frames are skipped.
handle_daemon_message_skips_control(daemon_message) ==
    IF daemon_message.tag = "Err"
    THEN /\ WrapperFail(daemon_message.error)
         /\ UNCHANGED <<daemon_chan, daemon_log>>
    ELSE LET message == daemon_message.value IN
         IF message.frame = "Binary"
         THEN LET decoded == decode(message.payload) IN
              IF decoded.tag = "Err"
              THEN /\ WrapperFail(decoded.error)
                   /\ UNCHANGED <<daemon_chan, daemon_log>>
              ELSE DaemonTxSend(decoded.value)
         ELSE UNCHANGED <<wrapper_pc, wrapper_result, close_attempted, wrapper_pending, daemon_chan,
                          daemon_log>>

\* handle_daemon_message(daemon_message)
handle_daemon_message(daemon_message) ==
    IF daemon_message.tag = "Err"
    THEN /\ WrapperFail(daemon_message.error)
         /\ UNCHANGED <<daemon_chan, daemon_log>>
    ELSE LET message == daemon_message.value IN
         IF message.frame = "Binary"
         THEN LET decoded == decode(message.payload) IN
              IF decoded.tag = "Err"
              THEN /\ WrapperFail(decoded.error)
                   /\ UNCHANGED <<daemon_chan, daemon_log>>
              ELSE DaemonTxSend(decoded.value)
         ELSE /\ WrapperFail([kind |-> "InvalidMessage", message |-> message])
              /\ UNCHANGED <<daemon_chan, daemon_log>>

\* start(): the connection.next() branch
WrapperDaemonMessage ==
    /\ UNCHANGED notWrapper
    /\ wrapper_pc = "select"
    /\ Len(conn_in) < MaxInbound
    /\ \E item \in StreamItems :
        /\ conn_in' = Append(conn_in, item)
        /\ IF item = None
           THEN /\ WrapperBreak
                /\ UNCHANGED <<daemon_chan, daemon_log>>
           ELSE /\ handle_daemon_message(unwrap(item))
                /\ UNCHANGED conn_out
    /\ UNCHANGED <<client_chan, client_tx_open, daemon_rx_open, protocol_version,
                   consumer_blocked, client_log>>

\* The wrapper suspended in daemon_tx.send is woken: the queue has room, or the
\* receiver is gone.
WrapperDeliver ==
    /\ UNCHANGED notWrapper
    /\ wrapper_pc = "sending"
    /\ ~daemon_rx_open \/ Len(daemon_chan) < ChannelCap
    /\ DaemonTxSend(unwrap(wrapper_pending))
    /\ UNCHANGED <<client_chan, client_tx_open, daemon_rx_open, protocol_version,
                   consumer_blocked, conn_out, conn_in, client_log>>

(***************************************************************************)
(* The consumer of a channel pair: whoever holds (client_tx, daemon_rx).   *)
(***************************************************************************)
\* client_tx.send(m).await completes: the message is queued.
Enqueue(m) ==
    /\ client_chan' = Append(client_chan, m)
    /\ client_log' = Append(client_log, m)

\* tx.send(m).await by the consumer: queued if there is room, suspended otherwise
\* (a send to an exited wrapper fails at once and changes nothing).
ConsumerSend ==
    /\ UNCHANGED notWrapper
    /\ client_tx_open
    /\ consumer_blocked = None
    /\ wrapper_pc # "exited"
    /\ Len(client_log) < MaxOutbound
    /\ \E m \in ClientMessages :
          IF Len(client_chan) < ChannelCap
          THEN Enqueue(m) /\ UNCHANGED consumer_blocked
          ELSE consumer_blocked' = Some(m) /\ UNCHANGED <<client_chan, client_log>>
    /\ UNCHANGED <<daemon_chan, client_tx_open, daemon_rx_open, protocol_version,
                   wrapper_pc, wrapper_pending, wrapper_result, close_attempted, conn_out, conn_in,
                   daemon_log>>

\* The suspended send completes once the wrapper took a message, or fails once the
\* wrapper is gone.
ConsumerSendWakes ==
    /\ UNCHANGED notWrapper
    /\ consumer_blocked # None
    /\ IF wrapper_pc = "exited"
       THEN UNCHANGED <<client_chan, client_log>>
       ELSE Len(client_chan) < ChannelCap /\ Enqueue(unwrap(consumer_blocked))
    /\ consumer_blocked' = None
    /\ UNCHANGED <<daemon_chan, client_tx_open, daemon_rx_open, protocol_version,
                   wrapper_pc, wrapper_pending, wrapper_result, close_attempted, conn_out, conn_in,
                   daemon_log>>

\* rx.recv().await by the consumer yields Some(message)
ConsumerRecv ==
    /\ UNCHANGED notWrapper
    /\ daemon_rx_open
    /\ consumer_blocked = None
    /\ daemon_chan # <<>>
    /\ daemon_chan' = Tail(daemon_chan)
    /\ UNCHANGED <<client_chan, client_tx_open, daemon_rx_open, wrapperVars>>

\* The consumer drops the outbound sender.
DropTx ==
    /\ UNCHANGED notWrapper
    /\ client_tx_open
    /\ consumer_blocked = None
    /\ client_tx_open' = FALSE
    /\ UNCHANGED <<client_chan, daemon_chan, daemon_rx_open, wrapperVars>>

\* The consumer drops the inbound receiver; what was queued is dropped with it.
DropRx ==
    /\ UNCHANGED notWrapper
    /\ daemon_rx_open
    /\ consumer_blocked = None
    /\ daemon_rx_open' = FALSE
    /\ daemon_chan' = <<>>
    /\ UNCHANGED <<client_chan, client_tx_open, wrapperVars>>

NextWrapper ==
    \/ WrapperClientMessage
    \/ WrapperClientClosed
    \/ WrapperDaemonMessage
    \/ WrapperDeliver
    \/ ConsumerSend
    \/ ConsumerSendWakes
    \/ ConsumerRecv
    \/ DropTx
    \/ DropRx


(***************************************************************************)
(* Session negotiator: OperatorApi::create_session and OperatorApi::connect.*)
(***************************************************************************)
unwrap_or(o, default) == IF o = None THEN default ELSE unwrap(o)

\* str::contains: needle occurs in haystack
contains(haystack, needle) ==
    \E i \in 1..(Len(haystack) - Len(needle) + 1) :
        SubSeq(haystack, i, i + Len(needle) - 1) = needle

TRIAL == <<"(","T","r","i","a","l",")">>

LicenseNames ==
    { <<"A","c","m","e">>, <<"A","c","m","e"," ","(","T","r","i","a","l",")">>,
      <<"(","t","r","i","a","l",")">> }

\* license.expire_at relative to now: whole days between the two (truncated), and
\* whether now is still at or before it.
LicenseExpiries ==
    { [days |-> d, good |-> g] : d \in (0 - 1)..MaxDays, g \in BOOLEAN } \ 
    ( { [days |-> d, good |-> TRUE] : d \in {0 - 1} } \cup
      { [days |-> d, good |-> FALSE] : d \in 1..MaxDays } )

\* <DateTime<Utc> as LicenseValidity>::CLOSE_TO_EXPIRATION_DAYS
CLOSE_TO_EXPIRATION_DAYS == 2

\* DateTime::from_naive_date(expire_at).days_until_expiration(): None once expired,
\* the whole days left otherwise
days_until_expiration(expire_at) ==
    IF expire_at.good THEN Some(expire_at.days) ELSE None

OperatorVersions == { <<"1",".","2",".","1">>, <<"2",".","0",".","0">>, <<"v","2">> }

\* env!("CARGO_PKG_VERSION")
CARGO_PKG_VERSION == <<"1",".","3",".","0">>

\* MirrordOperatorCrd: the operator's status object
Operators ==
    { [license |-> [name |-> n, expire_at |-> e, fingerprint |-> f],
       operator_version |-> ov,
       protocol_version |-> pv,
       copy_target_enabled |-> cte,
       features |-> ft] :
      n \in LicenseNames, e \in LicenseExpiries,
      f \in { None, Some("fingerprint") },
      ov \in OperatorVersions,
      pv \in { None, Some(<<"1",".","3",".","0">>), Some(<<"l","a","t","e","s","t">>) },
      cte \in { None, Some(FALSE), Some(TRUE) },
      ft \in { None, Some({"ProxyApi"}) } }

\* the parts of LayerConfig the negotiator reads
Configs ==
    { [copy_target |-> [enabled |-> c, scale_down |-> FALSE],
       target |-> [path |-> Some("pod/app"), namespace |-> Some("dev")],
       on_concurrent_steal |-> "abort"] : c \in BOOLEAN }

Certificates == { [subject |-> "client", der |-> Ok("der")],
                  [subject |-> "client", der |-> Err("io::Error")] }

\* rand::random::<u64>()
SessionIds == { 17, 42 }

\* TargetCrd fetched for the configured target
RawTarget(config) == [kind |-> "Raw", name |-> unwrap_or(config.target.path, "targetless")]

\* CopyTargetCrd created by the operator for CopyTargetSpec{target, idle_ttl, scale_down}
COPIED_POD_IDLE_TTL == 30
CopiedTarget(config) ==
    [kind |-> "Copied",
     name |-> "copy-of",
     spec |-> [target |-> unwrap_or(config.target.path, "targetless"),
               idle_ttl |-> Some(COPIED_POD_IDLE_TTL),
               scale_down |-> config.copy_target.scale_down]]

\* OperatorSessionMetadata::new
OperatorSessionMetadata_new(client_certificate, fingerprint, operator_features, version, copy_pod_enabled, session_id) ==
    [client_certificate |-> client_certificate,
     session_id |-> session_id,
     fingerprint |-> fingerprint,
     operator_features |-> operator_features,
     protocol_version |-> version,
     copy_pod_enabled |-> copy_pod_enabled]

\* OperatorSessionInformation a reattaching caller can hold
SessionInformations ==
    { [target |-> t,
       metadata |-> OperatorSessionMetadata_new(c, Some("fingerprint"), ft, pv, Some(TRUE), id)] :
      t \in { RawTarget([target |-> [path |-> Some("pod/app")]]),
              CopiedTarget([target |-> [path |-> Some("pod/app")],
                            copy_target |-> [scale_down |-> FALSE]]) },
      c \in { None } \cup { Some(x) : x \in Certificates },
      ft \in { {}, {"ProxyApi"} },
      pv \in { None, Some(<<1,3,0>>) },
      id \in SessionIds }

\* OperatorSessionMetadata::client_credentials
client_credentials(metadata) ==
    IF metadata.client_certificate = None THEN Ok(None)
    ELSE LET der == unwrap(metadata.client_certificate).der IN
         IF der.tag = "Ok" THEN Ok(Some(<<"base64", der.value>>)) ELSE der

\* OperatorSessionMetadata::proxy_feature_enabled
proxy_feature_enabled(metadata) == "ProxyApi" \in metadata.operator_features

\* Mutant: the capability check accepts every configuration.
check_config_unchecked(config, operator) == Ok("unit")

\* OperatorApi::check_config
check_config(config, operator) ==
    IF config.copy_target.enabled /\ ~unwrap_or(operator.copy_target_enabled, FALSE)
    THEN Err([kind |-> "UnsupportedFeature",
              feature |-> "copy target",
              operator_version |-> operator.operator_version])
    ELSE Ok("unit")

\* OperatorApi::namespace
namespace(config) == unwrap_or(config.target.namespace, "default")

\* Api::resource_url
resource_url(config, plural) ==
    <<"apis", "operator.metalbear.co/v1", "namespaces", namespace(config), plural>>

\* Mutant: the proxy capability is not consulted; the resource is always addressed
\* directly.
connect_url_always_direct(config, session) ==
    LET raw == session.target.kind = "Raw"
        plural == IF raw THEN "targets" ELSE "copytargets"
    IN  [path |-> Append(resource_url(config, plural), session.target.name),
         query |->
            IF raw
            THEN << <<"on_concurrent_steal", config.on_concurrent_steal>>, <<"connect", "true">> >>
            ELSE << <<"connect", "true">> >>]

\* OperatorApi::connect_url
connect_url(config, session) ==
    LET proxy == proxy_feature_enabled(session.metadata)
        raw == session.target.kind = "Raw"
        plural == IF raw THEN "targets" ELSE "copytargets"
    IN  [path |->
            IF proxy
            THEN <<"apis", "operator.metalbear.co/v1", "proxy", "namespaces",
                   namespace(config), plural, session.target.name>>
            ELSE Append(resource_url(config, plural), session.target.name),
         query |->
            IF raw
            THEN << <<"on_concurrent_steal", config.on_concurrent_steal>>, <<"connect", "true">> >>
            ELSE << <<"connect", "true">> >>]

\* a character that is not ASCII
NonAscii == "\\u00e9"

RECURSIVE remove_non_ascii(_)
\* name.replace(|c: char| !c.is_ascii(), "")
remove_non_ascii(str) ==
    IF str = <<>> THEN <<>>
    ELSE IF Head(str) = NonAscii THEN remove_non_ascii(Tail(str))
    ELSE <<Head(str)>> \o remove_non_ascii(Tail(str))

RECURSIVE trim(_)
\* str::trim
trim(str) ==
    IF str = <<>> THEN <<>>
    ELSE IF Head(str) = " " THEN trim(Tail(str))
    ELSE IF str[Len(str)] = " " THEN trim(SubSeq(str, 1, Len(str) - 1))
    ELSE str

\* UserIdentity::load()
UserIdentities ==
    { [name |-> None, hostname |-> None],
      [name |-> Some(<<" ","z","o",NonAscii>>), hostname |-> Some(<<"h","o","s","t"," ">>)] }

\* the request connect_target builds
connect_request(config, session_info, identity) ==
    LET credentials == client_credentials(session_info.metadata) IN
    [uri |-> connect_url(config, session_info),
     headers |->
        [h \in {"x-session-id", "x-client-name", "x-client-hostname", "x-client-der"} |->
            CASE h = "x-session-id" -> Some(session_info.metadata.session_id)
              [] h = "x-client-name" ->
                    IF identity.name = None THEN None
                    ELSE Some(trim(remove_non_ascii(unwrap(identity.name))))
              [] h = "x-client-hostname" ->
                    IF identity.hostname = None THEN None
                    ELSE Some(trim(remove_non_ascii(unwrap(identity.hostname))))
              [] OTHER ->
                    IF credentials.tag = "Ok" THEN credentials.value ELSE None]]

\* Mutant: the warning always names a number of days.
license_messages_no_today(operator, days) ==
    LET expires_soon == days <= CLOSE_TO_EXPIRATION_DAYS
        is_trial == contains(operator.license.name, TRIAL)
    IN  IF is_trial /\ expires_soon
        THEN << [level |-> "warning",
                 text |-> "Operator license will expire",
                 when |-> <<"soon, in", days, IF days > 1 THEN "days" ELSE "day">>] >>
        ELSE IF is_trial
        THEN << [level |-> "info", text |-> "Operator license is valid for", days |-> days] >>
        ELSE <<>>

\* the expiry messages create_session reports for a license that is still valid
license_messages(operator, days) ==
    LET expires_soon == days <= CLOSE_TO_EXPIRATION_DAYS
        is_trial == contains(operator.license.name, TRIAL)
    IN  IF is_trial /\ expires_soon
        THEN << [level |-> "warning",
                 text |-> "Operator license will expire",
                 when |-> IF days > 0
                          THEN <<"soon, in", days, IF days > 1 THEN "days" ELSE "day">>
                          ELSE <<"today">>] >>
        ELSE IF is_trial
        THEN << [level |-> "info", text |-> "Operator license is valid for", days |-> days] >>
        ELSE <<>>

InitSession ==
    /\ s_entry \in {"create_session", "connect"}
    /\ s_config \in Configs
    /\ IF s_entry = "create_session"
       THEN s_cluster \in Operators /\ s_info = None
       ELSE s_cluster = None /\ s_info \in { Some(i) : i \in SessionInformations }
    /\ s_pc = "start"
    /\ s_operator = None
    /\ s_certificate = None
    /\ s_metadata = None
    /\ s_session = None
    /\ s_request = None
    /\ s_trace = <<>>
    /\ s_messages = <<>>
    /\ s_result = Pending
    /\ s_sent = <<>>

IdleSession ==
    /\ s_entry = "none"
    /\ s_config = None
    /\ s_cluster = None
    /\ s_info = None
    /\ s_pc = "idle"
    /\ s_operator = None
    /\ s_certificate = None
    /\ s_metadata = None
    /\ s_session = None
    /\ s_request = None
    /\ s_trace = <<>>
    /\ s_messages = <<>>
    /\ s_result = Pending
    /\ s_sent = <<>>

\* the entry point returns Err(e) through `?` or `return Err(..)`
SessionFail(e) ==
    /\ s_pc' = "returned"
    /\ s_result' = Err(e)

Did(entry) == s_trace' = Append(s_trace, entry)

\* Mutant: the reattach entry point resolves the session again, as create_session does.
SessionNew_resolves_again ==
    /\ UNCHANGED notSession
    /\ s_pc = "start"
    /\ \E ok \in BOOLEAN :
        /\ s_trace' = (IF s_entry = "connect"
                       THEN Append(s_trace, [op |-> "set_operator_properties"])
                       ELSE s_trace)
                      \o << [op |-> "create_kube_api", ok |-> ok] >>
        /\ IF ~ok
           THEN SessionFail([kind |-> "CreateApiError"]) /\ UNCHANGED s_session
           ELSE /\ UNCHANGED s_result
                /\ s_pc' = "fetch_operator"
                /\ UNCHANGED s_session
    /\ UNCHANGED <<s_sent, s_entry, s_config, s_cluster, s_info, s_operator, s_certificate,
                   s_metadata, s_request, s_messages, protocol_version, wrapper_pc>>

\* OperatorApi::new(config).await?  (connect first hands the metadata to analytics)
SessionNew ==
    /\ UNCHANGED notSession
    /\ s_pc = "start"
    /\ \E ok \in BOOLEAN :
        /\ s_trace' = (IF s_entry = "connect"
                       THEN Append(s_trace, [op |-> "set_operator_properties"])
                       ELSE s_trace)
                      \o << [op |-> "create_kube_api", ok |-> ok] >>
        /\ IF ~ok
           THEN SessionFail([kind |-> "CreateApiError"]) /\ UNCHANGED s_session
           ELSE /\ UNCHANGED s_result
                /\ IF s_entry = "connect"
                   THEN s_pc' = "connect_target" /\ s_session' = s_info
                   ELSE s_pc' = "fetch_operator" /\ UNCHANGED s_session
    /\ UNCHANGED <<s_sent, s_entry, s_config, s_cluster, s_info, s_operator, s_certificate,
                   s_metadata, s_request, s_messages, protocol_version, wrapper_pc>>

\* let operator = operator_api.fetch_operator().await?
FetchOperator ==
    /\ UNCHANGED notSession
    /\ s_pc = "fetch_operator"
    /\ \E ok \in BOOLEAN :
        /\ Did([op |-> "fetch_operator", ok |-> ok])
        /\ IF ok
           THEN s_operator' = Some(s_cluster) /\ s_pc' = "license" /\ UNCHANGED s_result
           ELSE /\ SessionFail([kind |-> "KubeError", operation |-> "FindingOperator"])
                /\ UNCHANGED s_operator
    /\ UNCHANGED <<s_sent, s_entry, s_config, s_cluster, s_info, s_certificate, s_metadata,
                   s_session, s_request, s_messages, protocol_version, wrapper_pc>>

\* Mutant: the missing license is reported, and negotiation goes on.
CheckLicense_no_return ==
    /\ UNCHANGED notSession
    /\ s_pc = "license"
    /\ LET operator == unwrap(s_operator)
           days == days_until_expiration(operator.license.expire_at)
       IN  IF days = None
           THEN s_messages' = Append(s_messages,
                      [level |-> "warning", text |-> "No valid license found"])
           ELSE s_messages' = s_messages \o license_messages(operator, unwrap(days))
    /\ s_pc' = "check_config"
    /\ UNCHANGED <<s_sent, s_entry, s_config, s_cluster, s_info, s_operator, s_certificate,
                   s_metadata, s_session, s_request, s_trace, s_result, protocol_version,
                   wrapper_pc>>

\* create_session: the license check and its messages
CheckLicense ==
    /\ UNCHANGED notSession
    /\ s_pc = "license"
    /\ LET operator == unwrap(s_operator)
           days == days_until_expiration(operator.license.expire_at)
       IN  IF days = None
           THEN /\ s_messages' = Append(s_messages,
                      [level |-> "warning", text |-> "No valid license found"])
                /\ SessionFail([kind |-> "NoLicense"])
           ELSE /\ s_messages' = s_messages \o license_messages(operator, unwrap(days))
                /\ s_pc' = "check_config"
                /\ UNCHANGED s_result
    /\ UNCHANGED <<s_sent, s_entry, s_config, s_cluster, s_info, s_operator, s_certificate,
                   s_metadata, s_session, s_request, s_trace, protocol_version, wrapper_pc>>

\* Self::check_config(config, &operator)?
CheckConfig ==
    /\ UNCHANGED notSession
    /\ s_pc = "check_config"
    /\ Did([op |-> "check_config"])
    /\ LET checked == check_config(s_config, unwrap(s_operator)) IN
       IF checked.tag = "Err"
       THEN SessionFail(checked.error)
       ELSE s_pc' = "get_client_certificate" /\ UNCHANGED s_result
    /\ UNCHANGED <<s_sent, s_entry, s_config, s_cluster, s_info, s_operator, s_certificate,
                   s_metadata, s_session, s_request, s_messages, protocol_version,
                   wrapper_pc>>

\* Mutant: a failure of the credential store is returned to the caller.
GetClientCertificate_fatal ==
    /\ UNCHANGED notSession
    /\ s_pc = "get_client_certificate"
    /\ LET fingerprint == unwrap(s_operator).license.fingerprint IN
       IF fingerprint = None
       THEN /\ s_certificate' = None
            /\ Did([op |-> "get_client_certificate", store |-> FALSE, ok |-> TRUE])
            /\ s_pc' = "metadata"
            /\ UNCHANGED s_result
       ELSE \E fetched \in { Err("AuthenticationError") } \cup { Ok(c) : c \in Certificates } :
            /\ s_certificate' = IF fetched.tag = "Ok" THEN Some(fetched.value) ELSE None
            /\ Did([op |-> "get_client_certificate", store |-> TRUE,
                    ok |-> fetched.tag = "Ok"])
            /\ IF fetched.tag = "Ok"
               THEN s_pc' = "metadata" /\ UNCHANGED s_result
               ELSE SessionFail([kind |-> "AuthenticationError"])
    /\ UNCHANGED <<s_sent, s_entry, s_config, s_cluster, s_info, s_operator, s_metadata,
                   s_session, s_request, s_messages, protocol_version, wrapper_pc>>

\* Self::get_client_certificate(&operator_api, &operator).await.ok().flatten():
\* without a license fingerprint the credential store is not opened
GetClientCertificate ==
    /\ UNCHANGED notSession
    /\ s_pc = "get_client_certificate"
    /\ LET fingerprint == unwrap(s_operator).license.fingerprint IN
       IF fingerprint = None
       THEN /\ s_certificate' = None
            /\ Did([op |-> "get_client_certificate", store |-> FALSE, ok |-> TRUE])
       ELSE \E fetched \in { Err("AuthenticationError") } \cup { Ok(c) : c \in Certificates } :
            /\ s_certificate' = IF fetched.tag = "Ok" THEN Some(fetched.value) ELSE None
            /\ Did([op |-> "get_client_certificate", store |-> TRUE,
                    ok |-> fetched.tag = "Ok"])
    /\ s_pc' = "metadata"
    /\ UNCHANGED <<s_sent, s_entry, s_config, s_cluster, s_info, s_operator, s_metadata,
                   s_session, s_request, s_messages, s_result, protocol_version,
                   wrapper_pc>>

\* OperatorSessionMetadata::new(..), metadata.set_operator_properties(analytics)
BuildMetadata ==
    /\ UNCHANGED notSession
    /\ s_pc = "metadata"
    /\ LET operator == unwrap(s_operator) IN
       \E session_id \in SessionIds :
          s_metadata' = Some(OperatorSessionMetadata_new(
                s_certificate,
                operator.license.fingerprint,
                unwrap_or(operator.features, {}),
                IF operator.protocol_version = None THEN None
                ELSE parse_version(unwrap(operator.protocol_version)),
                operator.copy_target_enabled,
                session_id))
    /\ Did([op |-> "set_operator_properties"])
    /\ s_pc' = "compare_versions"
    /\ UNCHANGED <<s_sent, s_entry, s_config, s_cluster, s_info, s_operator, s_certificate,
                   s_session, s_request, s_messages, s_result, protocol_version,
                   wrapper_pc>>

\* create_session: "comparing versions"; an operator version that does not parse
\* panics in expect()
CompareVersions ==
    /\ UNCHANGED notSession
    /\ s_pc = "compare_versions"
    /\ LET operator_version == parse_version(unwrap(s_operator).operator_version)
           mirrord_version == unwrap(parse_version(CARGO_PKG_VERSION))
       IN  IF operator_version = None
           THEN /\ s_pc' = "panicked"
                /\ s_result' = [tag |-> "Panic"]
                /\ UNCHANGED s_messages
           ELSE /\ s_pc' = "target"
                /\ UNCHANGED s_result
                /\ s_messages' =
                      IF version_lt(mirrord_version, unwrap(operator_version))
                      THEN s_messages \o
                           << [level |-> "warning", text |-> "version mismatch"],
                              [level |-> "warning", text |-> "Consider updating"] >>
                      ELSE s_messages
    /\ UNCHANGED <<s_sent, s_entry, s_config, s_cluster, s_info, s_operator, s_certificate,
                   s_metadata, s_session, s_request, s_trace, protocol_version, wrapper_pc>>

\* Mutant: the copy is returned as the session's target without being connected to.
CopyTargetStep_unconnected ==
    /\ \E ok \in BOOLEAN :
        /\ Did([op |-> "copy_target", ok |-> ok, target |-> CopiedTarget(s_config)])
        /\ IF ok
           THEN /\ s_session' = Some([target |-> CopiedTarget(s_config),
                                      metadata |-> unwrap(s_metadata)])
                /\ s_pc' = "returned"
                /\ s_result' = Ok([info |-> [target |-> CopiedTarget(s_config),
                                             metadata |-> unwrap(s_metadata)]])
           ELSE /\ SessionFail([kind |-> "KubeError", operation |-> "CopyingTarget"])
                /\ UNCHANGED s_session

\* operator_api.copy_target(&metadata, target, scale_down).await?, then
\* session_info is built for connect_target
CopyTargetStep ==
    /\ \E ok \in BOOLEAN :
        /\ Did([op |-> "copy_target", ok |-> ok, target |-> CopiedTarget(s_config)])
        /\ IF ok
           THEN /\ s_session' = Some([target |-> CopiedTarget(s_config),
                                      metadata |-> unwrap(s_metadata)])
                /\ s_pc' = "connect_target"
                /\ UNCHANGED s_result
           ELSE /\ SessionFail([kind |-> "KubeError", operation |-> "CopyingTarget"])
                /\ UNCHANGED s_session

\* what self.target_api.get(&target_name) can answer: the target, or a kube::Error
\* (the API's 404 among them)
FetchedTargets(config) == { Ok(RawTarget(config)), Err("NotFound"), Err("Forbidden") }

\* OperatorApi::fetch_target: a kube::Error becomes KubeError{error, FindingTarget}
fetch_target(fetched) ==
    IF fetched.tag = "Ok" THEN fetched
    ELSE Err([kind |-> "KubeError", error |-> fetched.error, operation |-> "FindingTarget"])

\* Mutant: a target that cannot be fetched is connected to by its configured name.
FetchTargetStep_assumes_target ==
    /\ \E fetched \in FetchedTargets(s_config) :
        /\ Did([op |-> "fetch_target", ok |-> fetched.tag = "Ok",
                target |-> RawTarget(s_config)])
        /\ s_session' = Some([target |-> RawTarget(s_config),
                              metadata |-> unwrap(s_metadata)])
        /\ s_pc' = "connect_target"
        /\ UNCHANGED s_result

\* operator_api.fetch_target().await?, then session_info is built for connect_target
FetchTargetStep ==
    /\ \E fetched \in FetchedTargets(s_config) :
        LET raw_target == fetch_target(fetched) IN
        /\ Did([op |-> "fetch_target", ok |-> fetched.tag = "Ok",
                target |-> RawTarget(s_config)])
        /\ IF raw_target.tag = "Ok"
           THEN /\ s_session' = Some([target |-> raw_target.value,
                                      metadata |-> unwrap(s_metadata)])
                /\ s_pc' = "connect_target"
                /\ UNCHANGED s_result
           ELSE /\ SessionFail(raw_target.error)
                /\ UNCHANGED s_session

\* create_session: let target_to_connect = if config.feature.copy_target.enabled {..} else {..}
ResolveTarget ==
    /\ UNCHANGED notSession
    /\ s_pc = "target"
    /\ IF s_config.copy_target.enabled THEN CopyTargetStep ELSE FetchTargetStep
    /\ UNCHANGED <<s_sent, s_entry, s_config, s_cluster, s_info, s_operator, s_certificate,
                   s_metadata, s_request, s_messages, protocol_version, wrapper_pc>>

\* connect_target: the request is built (the builder rejects a malformed URI or header)
ConnectTarget ==
    /\ UNCHANGED notSession
    /\ s_pc = "connect_target"
    /\ Did([op |-> "connect_target", target |-> unwrap(s_session).target])
    /\ \E identity \in UserIdentities, built \in BOOLEAN :
          IF built
          THEN /\ s_request' = Some(connect_request(s_config, unwrap(s_session), identity))
               /\ s_pc' = "connect_ws"
               /\ UNCHANGED s_result
          ELSE /\ SessionFail([kind |-> "ConnectRequestBuildError"])
               /\ UNCHANGED s_request
    /\ UNCHANGED <<s_sent, s_entry, s_config, s_cluster, s_info, s_operator, s_certificate,
                   s_metadata, s_session, s_messages, protocol_version, wrapper_pc>>

\* the responses the operator answers the upgrade request with
ConnectResponses(k) ==
    { Response(st, Some(WEBSOCKET), Some(UPGRADE), Some(derive_accept_key(k)), p, b) :
      st \in { 101, 404 },
      p \in { Some(WS_PROTOCOL), None },
      b \in { [kind |-> "not_json"],
              [kind |-> "error_response", error |-> [code |-> 404, reason |-> "NotFound"]] } }

\* connect_target: upgrade::connect_ws(&self.client, request).await, then
\* ConnectionWrapper::wrap(connection, protocol_version) and Ok(connection)
ConnectWs ==
    /\ UNCHANGED notSession
    /\ s_pc = "connect_ws"
    /\ Did([op |-> "connect_ws", request |-> unwrap(s_request)])
    /\ s_sent' = Append(s_sent, unwrap(s_request).headers["x-session-id"])
    /\ s_pc' = "returned"
    /\ \E sent \in BOOLEAN, upgraded \in BOOLEAN, r \in ConnectResponses(<<"k","1">>) :
        LET verified == verify_response(r, <<"k","1">>) IN
        IF sent /\ verified.tag = "Ok" /\ upgraded
        THEN /\ protocol_version' = unwrap(s_session).metadata.protocol_version
             /\ wrapper_pc' = "select"
             /\ s_result' = Ok([info |-> unwrap(s_session)])
        ELSE /\ s_result' = Err([kind |-> "KubeError", operation |-> "WebsocketConnection"])
             /\ UNCHANGED <<protocol_version, wrapper_pc>>
    /\ UNCHANGED <<s_entry, s_config, s_cluster, s_info, s_operator, s_certificate,
                   s_metadata, s_session, s_request, s_messages>>

\* Mutant: the session information handed to connect carries a newly drawn session_id.
Reconnect_new_id ==
    /\ UNCHANGED notSession
    /\ s_pc = "returned"
    /\ Len(s_sent) < MaxAttempts
    /\ LET held == IF s_result.tag = "Ok" THEN Some(s_result.value.info) ELSE s_info IN
       /\ s_entry = "connect" \/ s_result.tag = "Ok"
       /\ \E session_id \in SessionIds :
             s_info' = Some([unwrap(held) EXCEPT !.metadata.session_id = session_id])
    /\ s_entry' = "connect"
    /\ s_cluster' = None
    /\ s_pc' = "start"
    /\ s_operator' = None
    /\ s_certificate' = None
    /\ s_metadata' = None
    /\ s_session' = None
    /\ s_request' = None
    /\ s_trace' = <<>>
    /\ s_messages' = <<>>
    /\ s_result' = Pending
    /\ protocol_version' = None
    /\ wrapper_pc' = "idle"
    /\ UNCHANGED <<s_config, s_sent>>

\* The caller reattaches: it calls OperatorApi::connect(config, session_information, ..)
\* with the OperatorSessionInformation it holds, which is the `info` of the connection
\* an earlier call returned, or the one it gave to a connect that failed.  The new
\* call starts with nothing done and no wrapper task of its own; connect does not
\* read the operator's status object.
Reconnect ==
    /\ UNCHANGED notSession
    /\ s_pc = "returned"
    /\ Len(s_sent) < MaxAttempts
    /\ IF s_result.tag = "Ok"
       THEN s_info' = Some(s_result.value.info)
       ELSE s_entry = "connect" /\ UNCHANGED s_info
    /\ s_entry' = "connect"
    /\ s_cluster' = None
    /\ s_pc' = "start"
    /\ s_operator' = None
    /\ s_certificate' = None
    /\ s_metadata' = None
    /\ s_session' = None
    /\ s_request' = None
    /\ s_trace' = <<>>
    /\ s_messages' = <<>>
    /\ s_result' = Pending
    /\ protocol_version' = None
    /\ wrapper_pc' = "idle"
    /\ UNCHANGED <<s_config, s_sent>>

NextSession ==
    \/ SessionNew
    \/ FetchOperator
    \/ CheckLicense
    \/ CheckConfig
    \/ GetClientCertificate
    \/ BuildMetadata
    \/ CompareVersions
    \/ ResolveTarget
    \/ ConnectTarget
    \/ ConnectWs
    \/ Reconnect

(***************************************************************************)
(* Internal proxy: proxy(), connect_and_ping(), ping(), create_ping_loop(). *)
(* The main connection is a channel pair whose other side is a Connection   *)
(* Wrapper task; time is counted in whole seconds inside ping()'s timeout.  *)
(***************************************************************************)
\* Duration::from_secs(5) of ping()
PING_TIMEOUT == 5

\* The two callers of ping(): connect_and_ping and the keep-alive task.
Probers == { "startup", "supervisor" }

supVars == <<sup_pc, sup_result, token_cancelled>>
pingVars == <<ping_elapsed, ping_resolved>>
setupVars == <<p_env, p_agent_connect_info, p_stdout, p_detached>>
\* what the return of a ping() call changes in its caller
pingCallers == <<p_pc, p_result, sup_pc, sup_result, token_cancelled, client_tx_open,
                 daemon_rx_open>>
\* the main connection as proxy() and the keep-alive task see it
mainConnection == <<chanVars, protocol_version, wrapper_pc, client_log>>

\* Values of the AGENT_CONNECT_INFO environment variable.
NULL_JSON == "null"
CONNECT_INFO_JSON == "{\"DirectKubernetes\":{}}"
\* a value holding bytes that are not valid Unicode
NOT_UNICODE == "\\xff"
EnvValues ==
    { None, Some(NULL_JSON), Some(CONNECT_INFO_JSON), Some("{\"Direct"), Some(""),
      Some(NOT_UNICODE) }

\* env::var(AGENT_CONNECT_INFO_ENV_KEY): Err when the variable is not set, and also
\* when its value is not valid Unicode
env_var(env) ==
    IF env = None THEN Err("NotPresent")
    ELSE IF unwrap(env) = NOT_UNICODE THEN Err("NotUnicode")
    ELSE Ok(unwrap(env))

\* serde_json::from_str::<Option<AgentConnectInfo>>
from_str(var) ==
    IF var = NULL_JSON THEN Ok(None)
    ELSE IF var = CONNECT_INFO_JSON THEN Ok(Some([kind |-> "DirectKubernetes"]))
    ELSE Err("serde_json::Error")

\* get_agent_connect_info()
get_agent_connect_info(env) ==
    LET var == env_var(env) IN
    IF var.tag = "Err"
    THEN Ok(None)
    ELSE LET parsed == from_str(var.value) IN
         IF parsed.tag = "Ok"
         THEN parsed
         ELSE Err([kind |-> "ConnectInfoLoadFailed", var |-> var.value])

InitProxy ==
    /\ p_env \in EnvValues
    /\ p_pc = "config"
    /\ p_agent_connect_info = None
    /\ p_trace = <<>>
    /\ p_stdout = <<>>
    /\ p_detached = FALSE
    /\ p_result = Pending
    /\ p_cancel_at = "none"
    /\ p_layer_connected = FALSE
    /\ token_cancelled = FALSE
    /\ sup_pc = "none"
    /\ sup_result = Pending
    /\ ping_elapsed = [who \in Probers |-> 0]
    /\ ping_resolved = 0

IdleProxy ==
    /\ p_env = None
    /\ p_pc = "idle"
    /\ p_agent_connect_info = None
    /\ p_trace = <<>>
    /\ p_stdout = <<>>
    /\ p_detached = FALSE
    /\ p_result = Pending
    /\ p_cancel_at = "none"
    /\ p_layer_connected = FALSE
    /\ token_cancelled = FALSE
    /\ sup_pc = "none"
    /\ sup_result = Pending
    /\ ping_elapsed = [who \in Probers |-> 0]
    /\ ping_resolved = 0

\* proxy() returns Err(e) through `?`
ProxyFail(e) ==
    /\ p_pc' = "returned"
    /\ p_result' = Err(e)

\* One fallible step of proxy() that touches neither the main connection nor the
\* keep-alive task: on success go to `next`, otherwise return one of `errors`.
ProxyStep(at, op, next, errors) ==
    /\ UNCHANGED notProxy
    /\ p_pc = at
    /\ p_trace' = Append(p_trace, op)
    /\ \/ p_pc' = next /\ UNCHANGED p_result
       \/ \E e \in errors : ProxyFail([kind |-> e])
    /\ UNCHANGED <<p_env, p_cancel_at, supVars, pingVars, mainConnection>>

\* LayerConfig::from_env()?, the log file of the proxy, setrlimit (failure ignored)
P_Config ==
    /\ ProxyStep("config", [op |-> "from_env"], "connect_info",
                 { "ConfigError", "OpenIntProxyLogFile" })
    /\ UNCHANGED <<p_agent_connect_info, p_stdout, p_detached>>

\* let agent_connect_info = get_agent_connect_info()?;
P_ConnectInfo ==
    /\ UNCHANGED notProxy
    /\ p_pc = "connect_info"
    /\ p_trace' = Append(p_trace, [op |-> "get_agent_connect_info"])
    /\ LET info == get_agent_connect_info(p_env) IN
       IF info.tag = "Ok"
       THEN /\ p_agent_connect_info' = info.value
            /\ p_pc' = "listen"
            /\ UNCHANGED p_result
       ELSE /\ ProxyFail(info.error)
            /\ UNCHANGED p_agent_connect_info
    /\ UNCHANGED <<p_env, p_stdout, p_detached, p_cancel_at, supVars, pingVars,
                   mainConnection>>

\* let listener = create_listen_socket()?;
P_Listen ==
    /\ ProxyStep("listen", [op |-> "create_listen_socket"], "connect", { "ListenError" })
    /\ UNCHANGED <<p_agent_connect_info, p_stdout, p_detached>>

\* Mutant: connect_and_ping returns the pair as soon as the connection exists.
P_Connect_no_ping ==
    /\ UNCHANGED notProxy
    /\ p_pc = "connect"
    /\ p_trace' = Append(p_trace, [op |-> "AgentConnection::new",
                                   info |-> p_agent_connect_info])
    /\ \/ /\ p_pc' = "spawn"
          /\ wrapper_pc' = "select"
          /\ protocol_version' \in { None, Some(<<1, 3, 0>>) }
          /\ UNCHANGED p_result
       \/ /\ ProxyFail([kind |-> "AgentConnectionFailed"])
          /\ UNCHANGED <<wrapper_pc, protocol_version>>
    /\ UNCHANGED <<setupVars, p_cancel_at, supVars, pingVars, chanVars, client_log>>

\* connect_and_ping: AgentConnection::new(config, agent_connect_info, analytics).await?
\* On success the channel pair exists and its Connection Wrapper task runs.
P_Connect ==
    /\ UNCHANGED notProxy
    /\ p_pc = "connect"
    /\ p_trace' = Append(p_trace, [op |-> "AgentConnection::new",
                                   info |-> p_agent_connect_info])
    /\ \/ /\ p_pc' = "ping_send"
          /\ wrapper_pc' = "select"
          /\ protocol_version' \in { None, Some(<<1, 3, 0>>) }
          /\ UNCHANGED p_result
       \/ /\ ProxyFail([kind |-> "AgentConnectionFailed"])
          /\ UNCHANGED <<wrapper_pc, protocol_version>>
    /\ UNCHANGED <<setupVars, p_cancel_at, supVars, pingVars, chanVars, client_log>>

\* InternalProxySetupError::NoPong(format!("{other:?}")) / NoPong("Timeout in pong")
NoPong(what) == [kind |-> "NoPong", what |-> what]

\* format!("{other:?}") of an Option<DaemonMessage>
debug(other) ==
    IF other = None THEN "None" ELSE "Some(" \o unwrap(other).type \o ")"

\* ping(): what the receive loop does with Some(message)
ping_response_strict(message) ==
    IF message = Pong THEN "break" ELSE "return Err"

ping_response(message) ==
    IF message = Pong THEN "break"
    ELSE IF message = LogMessage THEN "continue"
    ELSE "return Err"

\* The channel ends (agent_tx, agent_rx) held by a finished caller are dropped.
DropConnection ==
    /\ client_tx_open' = FALSE
    /\ daemon_rx_open' = FALSE

\* create_ping_loop: ping() failed in the loop; the task carries on instead
SupPingFailed_keeps_probing(err) ==
    /\ sup_pc' = "select"
    /\ UNCHANGED <<sup_result, token_cancelled, client_tx_open, daemon_rx_open>>

\* create_ping_loop: `if let Err(err) = ping(..).await { cancellation_token.cancel();
\* return Err(err); }`
SupPingFailed(err) ==
    /\ token_cancelled' = TRUE
    /\ sup_result' = Err(err)
    /\ sup_pc' = "done"
    /\ DropConnection

\* Mutant: proxy() goes on although the startup probe failed.
PingReturns_ignores_failure(who, result) ==
    IF who = "startup"
    THEN /\ UNCHANGED supVars
         /\ p_pc' = "spawn"
         /\ UNCHANGED <<p_result, client_tx_open, daemon_rx_open>>
    ELSE /\ UNCHANGED <<p_pc, p_result>>
         /\ IF result.tag = "Ok"
            THEN /\ sup_pc' = "select"
                 /\ UNCHANGED <<sup_result, token_cancelled, client_tx_open,
                                daemon_rx_open>>
            ELSE SupPingFailed(result.error)

\* ping() returns `result` to its caller.
PingReturns(who, result) ==
    IF who = "startup"
    THEN \* connect_and_ping: `ping(..).await?; Ok((agent_tx, agent_rx))`, then the
         \* `?` of proxy()
         /\ UNCHANGED supVars
         /\ IF result.tag = "Ok"
            THEN /\ p_pc' = "spawn"
                 /\ UNCHANGED <<p_result, client_tx_open, daemon_rx_open>>
            ELSE /\ ProxyFail(result.error)
                 /\ DropConnection
    ELSE /\ UNCHANGED <<p_pc, p_result>>
         /\ IF result.tag = "Ok"
            THEN /\ sup_pc' = "select"
                 /\ UNCHANGED <<sup_result, token_cancelled, client_tx_open,
                                daemon_rx_open>>
            ELSE SupPingFailed(result.error)

\* Where a caller of ping() is.
PingPc(who) == IF who = "startup" THEN p_pc ELSE sup_pc

\* The caller `who` moves on inside ping().
PingGoes(who, pc) ==
    /\ IF who = "startup"
       THEN p_pc' = pc /\ UNCHANGED sup_pc
       ELSE sup_pc' = pc /\ UNCHANGED p_pc
    /\ UNCHANGED <<p_result, sup_result, token_cancelled, client_tx_open, daemon_rx_open>>

\* ping(): sender.send(ClientMessage::Ping).await? -- fails once the wrapper dropped
\* its receiver, completes when the queue has room, stays suspended otherwise.
PingSend(who) ==
    /\ UNCHANGED notProxy
    /\ PingPc(who) = "ping_send"
    /\ IF wrapper_pc = "exited"
       THEN /\ PingReturns(who, Err([kind |-> "SendError"]))
            /\ UNCHANGED <<client_chan, client_log, ping_elapsed>>
       ELSE /\ Len(client_chan) < ChannelCap
            /\ Enqueue(Ping)
            /\ PingGoes(who, "ping_wait")
            /\ ping_elapsed' = [ping_elapsed EXCEPT ![who] = 0]
    /\ UNCHANGED <<setupVars, p_trace, p_cancel_at, ping_resolved, daemon_chan,
                   protocol_version, wrapper_pc>>

\* Mutant: the deadline applies to each receive; a LogMessage starts it anew.
PingRecv_restarts_timeout(who) ==
    /\ UNCHANGED notProxy
    /\ PingPc(who) = "ping_wait"
    /\ daemon_chan # <<>>
    /\ daemon_chan' = Tail(daemon_chan)
    /\ LET other == Some(Head(daemon_chan))
           response == ping_response(unwrap(other)) IN
       IF response = "continue"
       THEN /\ UNCHANGED <<pingCallers, ping_resolved>>
            /\ ping_elapsed' = [ping_elapsed EXCEPT ![who] = 0]
       ELSE /\ PingReturns(who, IF response = "break" THEN Ok("unit")
                                ELSE Err(NoPong(debug(other))))
            /\ ping_elapsed' = [ping_elapsed EXCEPT ![who] = 0]
            /\ ping_resolved' = ping_resolved + 1
    /\ UNCHANGED <<setupVars, p_trace, p_cancel_at, client_chan, client_log,
                   protocol_version, wrapper_pc>>

\* ping(): receiver.recv().await yields Some(message) inside the timeout
PingRecv(who) ==
    /\ UNCHANGED notProxy
    /\ PingPc(who) = "ping_wait"
    /\ daemon_chan # <<>>
    /\ daemon_chan' = Tail(daemon_chan)
    /\ LET other == Some(Head(daemon_chan))
           response == ping_response(unwrap(other)) IN
       IF response = "continue"
       THEN UNCHANGED <<pingCallers, pingVars>>
       ELSE /\ PingReturns(who, IF response = "break" THEN Ok("unit")
                                ELSE Err(NoPong(debug(other))))
            /\ ping_elapsed' = [ping_elapsed EXCEPT ![who] = 0]
            /\ ping_resolved' = ping_resolved + 1
    /\ UNCHANGED <<setupVars, p_trace, p_cancel_at, client_chan, client_log,
                   protocol_version, wrapper_pc>>

\* ping(): receiver.recv().await yields None: the queue is empty and the wrapper,
\* the only holder of the sender, is gone
PingClosed(who) ==
    /\ UNCHANGED notProxy
    /\ PingPc(who) = "ping_wait"
    /\ daemon_chan = <<>>
    /\ wrapper_pc = "exited"
    /\ PingReturns(who, Err(NoPong(debug(None))))
    /\ ping_elapsed' = [ping_elapsed EXCEPT ![who] = 0]
    /\ ping_resolved' = ping_resolved + 1
    /\ UNCHANGED <<setupVars, p_trace, p_cancel_at, client_chan, daemon_chan, client_log,
                   protocol_version, wrapper_pc>>

\* A second passes while ping() waits inside tokio::time::timeout.
PingTick(who) ==
    /\ UNCHANGED notProxy
    /\ PingPc(who) = "ping_wait"
    /\ ping_elapsed[who] < PING_TIMEOUT
    /\ ping_elapsed' = [ping_elapsed EXCEPT ![who] = @ + 1]
    /\ UNCHANGED <<setupVars, p_trace, p_cancel_at, pingCallers, ping_resolved,
                   client_chan, daemon_chan, client_log, protocol_version, wrapper_pc>>

\* ping(): the timeout elapses: .map_err(|_| NoPong("Timeout in pong"))
PingTimeout(who) ==
    /\ UNCHANGED notProxy
    /\ PingPc(who) = "ping_wait"
    /\ ping_elapsed[who] = PING_TIMEOUT
    /\ PingReturns(who, Err(NoPong("Timeout in pong")))
    /\ ping_elapsed' = [ping_elapsed EXCEPT ![who] = 0]
    /\ ping_resolved' = ping_resolved + 1
    /\ UNCHANGED <<setupVars, p_trace, p_cancel_at, client_chan, daemon_chan, client_log,
                   protocol_version, wrapper_pc>>

\* create_ping_loop: the interval fires while a ping() is still awaited
SupTick_overlapping ==
    /\ UNCHANGED notProxy
    /\ sup_pc \in { "select", "ping_wait" }
    /\ Len(client_log) < MaxPings
    /\ sup_pc' = "ping_send"
    /\ UNCHANGED <<setupVars, p_pc, p_trace, p_result, p_cancel_at, sup_result,
                   token_cancelled, pingVars, mainConnection>>

\* create_ping_loop: the task is polled for the first time; the first tick of the
\* interval completes at once and the task enters its loop
SupStart ==
    /\ UNCHANGED notProxy
    /\ sup_pc = "spawned"
    /\ sup_pc' = "select"
    /\ UNCHANGED <<setupVars, p_pc, p_trace, p_result, p_cancel_at, sup_result,
                   token_cancelled, pingVars, mainConnection>>

\* create_ping_loop: select! takes `_ = main_keep_interval.tick()` and calls ping()
SupTick ==
    /\ UNCHANGED notProxy
    /\ sup_pc = "select"
    /\ Len(client_log) < MaxPings
    /\ sup_pc' = "ping_send"
    /\ UNCHANGED <<setupVars, p_pc, p_trace, p_result, p_cancel_at, sup_result,
                   token_cancelled, pingVars, mainConnection>>

\* create_ping_loop: cancellation ends the task wherever it is, a probe included
SupCancelled_anywhere ==
    /\ UNCHANGED notProxy
    /\ sup_pc \in { "select", "ping_send", "ping_wait" }
    /\ token_cancelled
    /\ sup_pc' = "done"
    /\ sup_result' = Ok("unit")
    /\ DropConnection
    /\ UNCHANGED <<setupVars, p_pc, p_trace, p_result, p_cancel_at, token_cancelled,
                   pingVars, client_chan, daemon_chan, protocol_version, wrapper_pc,
                   client_log>>

\* create_ping_loop: select! takes `_ = cancellation_token.cancelled()`: break, Ok(())
SupCancelled ==
    /\ UNCHANGED notProxy
    /\ sup_pc = "select"
    /\ token_cancelled
    /\ sup_pc' = "done"
    /\ sup_result' = Ok("unit")
    /\ DropConnection
    /\ UNCHANGED <<setupVars, p_pc, p_trace, p_result, p_cancel_at, token_cancelled,
                   pingVars, client_chan, daemon_chan, protocol_version, wrapper_pc,
                   client_log>>

\* let (token, join) = create_ping_loop(main_connection): the token is created and the
\* task spawned, owning the channel pair
P_Spawn ==
    /\ UNCHANGED notProxy
    /\ p_pc = "spawn"
    /\ p_trace' = Append(p_trace, [op |-> "create_ping_loop"])
    /\ sup_pc' = "spawned"
    /\ p_pc' = "print_port"
    /\ UNCHANGED <<setupVars, p_result, p_cancel_at, sup_result, token_cancelled,
                   pingVars, mainConnection>>

\* The port the listener was given.
LOCAL_PORT == 40123

\* print_port(&listener)?
P_PrintPort ==
    /\ UNCHANGED notProxy
    /\ p_pc = "print_port"
    /\ p_trace' = Append(p_trace, [op |-> "print_port"])
    /\ \/ /\ p_stdout' = Append(p_stdout, LOCAL_PORT)
          /\ p_pc' = "detach"
          /\ UNCHANGED p_result
       \/ /\ ProxyFail([kind |-> "LocalPortError"])
          /\ UNCHANGED p_stdout
    /\ UNCHANGED <<p_env, p_agent_connect_info, p_detached, p_cancel_at, supVars,
                   pingVars, mainConnection>>

\* Mutant: the process detaches as soon as the keep-alive task is spawned, before the
\* port is written.
P_Detach_before_port ==
    /\ UNCHANGED notProxy
    /\ p_pc \in { "print_port", "detach" }
    /\ ~p_detached
    /\ p_trace' = Append(p_trace, [op |-> "detach_io"])
    /\ \/ /\ p_detached' = TRUE
          /\ p_pc' = IF p_pc = "detach" THEN "new" ELSE p_pc
          /\ UNCHANGED p_result
       \/ /\ ProxyFail([kind |-> "SetSidError"])
          /\ UNCHANGED p_detached
    /\ UNCHANGED <<p_env, p_agent_connect_info, p_stdout, p_cancel_at, supVars, pingVars,
                   mainConnection>>

\* unsafe { detach_io()? }: setsid, flush, the standard streams to /dev/null
P_Detach ==
    /\ UNCHANGED notProxy
    /\ p_pc = "detach"
    /\ p_trace' = Append(p_trace, [op |-> "detach_io"])
    /\ \/ /\ p_detached' = TRUE
          /\ p_pc' = "new"
          /\ UNCHANGED p_result
       \/ /\ ProxyFail([kind |-> "SetSidError"])
          /\ UNCHANGED p_detached
    /\ UNCHANGED <<p_env, p_agent_connect_info, p_stdout, p_cancel_at, supVars, pingVars,
                   mainConnection>>

\* IntProxy::new(&config, agent_connect_info, listener).await?
P_IntProxyNew ==
    /\ ProxyStep("new", [op |-> "IntProxy::new", info |-> p_agent_connect_info], "run",
                 { "IntProxyError" })
    /\ UNCHANGED <<p_agent_connect_info, p_stdout, p_detached>>

\* .run(first_connection_timeout, consecutive_connection_timeout).await?: the accept
\* loop ends, normally or with an error
P_RunEnds ==
    /\ ProxyStep("run", [op |-> "IntProxy::run"], "cancel", { "IntProxyError" })
    /\ UNCHANGED <<p_agent_connect_info, p_stdout, p_detached>>

\* What the accept loop leaves alone while it serves: everything but its layers.
notAcceptLoop ==
    <<verifyVars, sessionVars, fsVars, chanVars, wrapperVars, p_env, p_pc,
      p_agent_connect_info, p_trace, p_stdout, p_detached, p_result, p_cancel_at,
      supVars, pingVars>>

\* IntProxy::run: the accept loop accepts the connection of a layer
P_LayerConnects ==
    /\ UNCHANGED notAcceptLoop
    /\ p_pc = "run"
    /\ ~p_layer_connected
    /\ p_layer_connected' = TRUE

\* IntProxy::run: the layer served by the accept loop disconnects
P_LayerDisconnects ==
    /\ UNCHANGED notAcceptLoop
    /\ p_pc = "run"
    /\ p_layer_connected
    /\ p_layer_connected' = FALSE

\* Mutant: proxy() goes on to wait for the task without having cancelled it.
P_Cancel_skipped ==
    /\ UNCHANGED notProxy
    /\ p_pc = "cancel"
    /\ p_trace' = Append(p_trace, [op |-> "cancel"])
    /\ p_pc' = "join"
    /\ UNCHANGED <<setupVars, p_result, p_cancel_at, supVars, pingVars, mainConnection>>

\* main_connection_cancellation_token.cancel();
P_Cancel ==
    /\ UNCHANGED notProxy
    /\ p_pc = "cancel"
    /\ p_trace' = Append(p_trace, [op |-> "cancel"])
    /\ token_cancelled' = TRUE
    /\ p_cancel_at' = sup_pc
    /\ p_pc' = "join"
    /\ UNCHANGED <<setupVars, p_result, sup_pc, sup_result, pingVars, mainConnection>>

\* Mutant: the error the keep-alive task returned is dropped at shutdown.
P_Join_forgiving ==
    /\ UNCHANGED notProxy
    /\ p_pc = "join"
    /\ sup_pc = "done"
    /\ p_trace' = Append(p_trace, [op |-> "join"])
    /\ p_pc' = "returned"
    /\ p_result' = IF sup_result.tag = "JoinError"
                   THEN Err([kind |-> "AgentClosedConnection"])
                   ELSE Ok("unit")
    /\ UNCHANGED <<setupVars, p_cancel_at, supVars, pingVars, mainConnection>>

\* match main_connection_task_join.await { Ok(Err(err)) => Err(err.into()),
\* Err(err) => Err(AgentClosedConnection), _ => Ok(()) }
P_Join ==
    /\ UNCHANGED notProxy
    /\ p_pc = "join"
    /\ sup_pc = "done"
    /\ p_trace' = Append(p_trace, [op |-> "join"])
    /\ p_pc' = "returned"
    /\ p_result' = IF sup_result.tag = "Err" THEN Err(sup_result.error)
                   ELSE IF sup_result.tag = "JoinError"
                   THEN Err([kind |-> "AgentClosedConnection"])
                   ELSE Ok("unit")
    /\ UNCHANGED <<setupVars, p_cancel_at, supVars, pingVars, mainConnection>>

NextProxy ==
    \/ P_Config
    \/ P_ConnectInfo
    \/ P_Listen
    \/ P_Connect
    \/ \E who \in Probers : PingSend(who)
    \/ \E who \in Probers : PingRecv(who)
    \/ \E who \in Probers : PingClosed(who)
    \/ \E who \in Probers : PingTick(who)
    \/ \E who \in Probers : PingTimeout(who)
    \/ P_Spawn
    \/ SupStart
    \/ SupTick
    \/ SupCancelled
    \/ P_PrintPort
    \/ P_Detach
    \/ P_IntProxyNew
    \/ P_LayerConnects
    \/ P_LayerDisconnects
    \/ P_RunEnds
    \/ P_Cancel
    \/ P_Join
    \/ WrapperClientMessage
    \/ WrapperClientClosed
    \/ WrapperDaemonMessage
    \/ WrapperDeliver

\* The keep-alive task ends without returning (it panicked or was aborted): awaiting
\* its JoinHandle yields Err(JoinError); the channel ends it owned are dropped.
SupAborted ==
    /\ UNCHANGED notProxy
    /\ sup_pc \in { "spawned", "select", "ping_send", "ping_wait" }
    /\ sup_pc' = "done"
    /\ sup_result' = [tag |-> "JoinError"]
    /\ DropConnection
    /\ UNCHANGED <<setupVars, p_pc, p_trace, p_result, p_cancel_at, token_cancelled,
                   pingVars, client_chan, daemon_chan, protocol_version, wrapper_pc,
                   client_log>>

\* proxy() with a keep-alive task that may end abnormally.
NextProxyAbnormal ==
    \/ NextProxy
    \/ SupAborted

(***************************************************************************)
(* Generation of the fs configuration: AdvancedFsUserConfig (what the user *)
(* wrote) and the environment give FsConfig.                               *)
(***************************************************************************)
\* FsModeConfig
FsModes == { "Local", "LocalWithOverrides", "Read", "Write" }

\* <FsModeConfig as Default>::default()
FsModeConfig_default == "Read"

\* VecOrSingle<String>
Single(pattern) == [kind |-> "Single", value |-> pattern]
Multi(patterns) == [kind |-> "Multi", values |-> patterns]

RECURSIVE split(_)
\* <VecOrSingle<String> as FromStr>::from_str: the parts between ';'
split(str) ==
    IF \A i \in 1..Len(str) : str[i] # ";"
    THEN <<str>>
    ELSE LET at == CHOOSE i \in 1..Len(str) :
                       str[i] = ";" /\ \A j \in 1..(i - 1) : str[j] # ";"
         IN  <<SubSeq(str, 1, at - 1)>> \o split(SubSeq(str, at + 1, Len(str)))

\* <FsModeConfig as FromStr>::from_str
parse_mode(str) ==
    CASE str = "local" -> Ok("Local")
      [] str = "localwithoverrides" -> Ok("LocalWithOverrides")
      [] str = "read" -> Ok("Read")
      [] str = "write" -> Ok("Write")
      [] OTHER -> Err([kind |-> "InvalidFsMode", value |-> str])

\* FromEnv::new(name).source_value(context).transpose() for a list of patterns:
\* Ok(None) when the variable is not set
patterns_from_env(env, name) ==
    IF env[name] = None THEN Ok(None) ELSE Ok(Some(Multi(split(unwrap(env[name])))))

\* a field with #[config(env = name)]: the variable when set, the user's value
\* otherwise
env_or_user(env, name, user_value) ==
    IF env[name] = None THEN Ok(user_value) ELSE patterns_from_env(env, name)

\* <FsModeConfig as MirrordConfig>::generate_config: MIRRORD_FILE_MODE when set,
\* the user's mode otherwise
FsModeConfig_generate_config(mode, env) ==
    IF env["MIRRORD_FILE_MODE"] = None THEN Ok(mode)
    ELSE parse_mode(unwrap(env["MIRRORD_FILE_MODE"]))

\* <FsModeConfig as MirrordToggleableConfig>::disabled_config: MIRRORD_FILE_MODE
\* when set, Local otherwise
FsModeConfig_disabled_config(env) ==
    IF env["MIRRORD_FILE_MODE"] = None THEN Ok("Local")
    ELSE parse_mode(unwrap(env["MIRRORD_FILE_MODE"]))

\* FsConfig
FsConfig(mode, read_write, read_only, local, not_found, mapping) ==
    [mode |-> mode, read_write |-> read_write, read_only |-> read_only,
     local |-> local, not_found |-> not_found, mapping |-> mapping]

\* AdvancedFsUserConfig::default()
AdvancedFsUserConfig_default ==
    FsConfig(FsModeConfig_default, None, None, None, None, None)

\* <AdvancedFsUserConfig as MirrordToggleableConfig>::disabled_config
disabled_config(env) ==
    LET mode == FsModeConfig_disabled_config(env)
        read_write == patterns_from_env(env, "MIRRORD_FILE_READ_WRITE_PATTERN")
        read_only == patterns_from_env(env, "MIRRORD_FILE_READ_ONLY_PATTERN")
        local == patterns_from_env(env, "MIRRORD_FILE_LOCAL_PATTERN")
    IN  IF mode.tag = "Err" THEN mode
        ELSE Ok(FsConfig(mode.value, read_write.value, read_only.value, local.value,
                         None, None))

\* Mutant: the configuration is generated as if the feature were switched off.
generate_config_as_disabled(user, env) == disabled_config(env)

\* <AdvancedFsUserConfig as MirrordConfig>::generate_config, as derived for FsConfig:
\* `mode` is nested, `read_write` and `local` name an environment variable, the
\* other fields are taken as the user gave them
generate_config(user, env) ==
    LET mode == FsModeConfig_generate_config(user.mode, env)
        read_write == env_or_user(env, "MIRRORD_FILE_READ_WRITE_PATTERN", user.read_write)
        local == env_or_user(env, "MIRRORD_FILE_LOCAL_PATTERN", user.local)
    IN  IF mode.tag = "Err" THEN mode
        ELSE Ok(FsConfig(mode.value, read_write.value, user.read_only, local.value,
                         user.not_found, user.mapping))

\* The configurations a user may write.
FsUserConfigs ==
    { FsConfig(m, rw, ro, l, nf, mp) :
      m \in FsModes,
      rw \in { None, Some(Single(<<".", "+">>)) },
      ro \in { None, Some(Multi(<< <<"a">>, <<"b">> >>)) },
      l \in { None, Some(Single(<<"x">>)) },
      nf \in { None, Some(Single(<<"g">>)) },
      mp \in { None, Some({ <<"^/home", "/etc">> }) } }

FsEnvNames ==
    { "MIRRORD_FILE_MODE", "MIRRORD_FILE_READ_WRITE_PATTERN",
      "MIRRORD_FILE_READ_ONLY_PATTERN", "MIRRORD_FILE_LOCAL_PATTERN" }

\* with_env_vars(vec![], ..): no variable is set
NoEnv == [name \in FsEnvNames |-> None]

\* The environments the generation may run in.
FsEnvs ==
    { [name \in FsEnvNames |->
          CASE name = "MIRRORD_FILE_MODE" -> m
            [] name = "MIRRORD_FILE_READ_WRITE_PATTERN" -> rw
            [] name = "MIRRORD_FILE_READ_ONLY_PATTERN" -> ro
            [] OTHER -> l] :
      m \in { None, Some("write"), Some("bogus") },
      rw \in { None, Some(<<"a", ";", "b">>) },
      ro \in { None, Some(<<"c">>) },
      l \in { None, Some(<<"d">>) } }

InitFs ==
    /\ fs_user \in FsUserConfigs
    /\ fs_env \in FsEnvs
    /\ fs_pc = "start"
    /\ fs_generated = Pending

IdleFs ==
    /\ fs_user = None
    /\ fs_env = None
    /\ fs_pc = "idle"
    /\ fs_generated = Pending

\* user_config.generate_config(&mut cfg_context)
GenerateConfig ==
    /\ UNCHANGED notFs
    /\ fs_pc = "start"
    /\ fs_pc' = "generate_config"
    /\ fs_generated' = generate_config(fs_user, fs_env)
    /\ UNCHANGED <<fs_user, fs_env>>

\* AdvancedFsUserConfig::disabled_config(&mut cfg_context)
DisabledConfig ==
    /\ UNCHANGED notFs
    /\ fs_pc = "start"
    /\ fs_pc' = "disabled_config"
    /\ fs_generated' = disabled_config(fs_env)
    /\ UNCHANGED <<fs_user, fs_env>>

NextFs ==
    \/ GenerateConfig
    \/ DisabledConfig

(***************************************************************************)
(* Specifications.                                                         *)
(***************************************************************************)
InitSpecVerify == InitVerify /\ IdleWrapper /\ IdleSession /\ IdleProxy /\ IdleFs
SpecVerify == InitSpecVerify /\ [][NextVerify]_vars

InitSpecWrapper == InitWrapper /\ IdleVerify /\ IdleSession /\ IdleProxy /\ IdleFs
SpecWrapper == InitSpecWrapper /\ [][NextWrapper]_vars

\* The wrapper task is polled whenever one of its branches is ready: a message or
\* the end of the outbound queue, or room (or a dropped receiver) for a suspended
\* push. Nothing obliges the transport to yield a frame.
WrapperFairness ==
    /\ WF_vars(WrapperClientMessage)
    /\ WF_vars(WrapperClientClosed)
    /\ WF_vars(WrapperDeliver)
SpecWrapperFair == SpecWrapper /\ WrapperFairness

InitSpecSession == InitSession /\ IdleVerify /\ IdleWrapper /\ IdleProxy /\ IdleFs
SpecSession == InitSpecSession /\ [][NextSession]_vars

InitSpecProxy == InitProxy /\ IdleVerify /\ IdleWrapper /\ IdleSession /\ IdleFs
SpecProxy == InitSpecProxy /\ [][NextProxy]_vars
SpecProxyAbnormal == InitSpecProxy /\ [][NextProxyAbnormal]_vars

\* Every task of the proxy is polled whenever it can take a step: proxy() itself, the
\* keep-alive task with its timers, and the wrapper task of the main connection.
\* Layers keep connecting to the accept loop and leaving it; nothing obliges the
\* accept loop to end (IntProxy::run serves for as long as layers connect) nor the
\* transport to yield a frame.
ProxyFairness ==
    /\ WF_vars(P_Config) /\ WF_vars(P_ConnectInfo) /\ WF_vars(P_Listen)
    /\ WF_vars(P_Connect) /\ WF_vars(P_Spawn) /\ WF_vars(P_PrintPort)
    /\ WF_vars(P_Detach) /\ WF_vars(P_IntProxyNew) /\ WF_vars(P_Cancel)
    /\ WF_vars(P_Join)
    /\ WF_vars(P_LayerConnects) /\ WF_vars(P_LayerDisconnects)
    /\ WF_vars(SupStart) /\ WF_vars(SupCancelled)
    /\ \A who \in Probers :
          /\ WF_vars(PingSend(who)) /\ WF_vars(PingRecv(who))
          /\ WF_vars(PingClosed(who)) /\ WF_vars(PingTick(who))
          /\ WF_vars(PingTimeout(who))
    /\ WrapperFairness
SpecProxyFair == SpecProxy /\ ProxyFairness

InitSpecFs == InitFs /\ IdleVerify /\ IdleWrapper /\ IdleSession /\ IdleProxy
SpecFs == InitSpecFs /\ [][NextFs]_vars


(***************************************************************************)
(* Claims about the Connection Wrapper (checked under SpecWrapper).        *)
(***************************************************************************)
\* The wrapper takes a SwitchProtocolVersion request from the outbound queue.
TakesSwitch ==
    /\ wrapper_pc = "select"
    /\ client_chan # <<>>
    /\ client_chan' = Tail(client_chan)
    /\ Head(client_chan).type = "SwitchProtocolVersion"

SemverWeight(v) == v[1] * 10000 + v[2] * 100 + v[3]
SemverMin(b, v) == IF SemverWeight(v) < SemverWeight(b) THEN v ELSE b

EncodedClient(m) == Binary(<<"bincode", m>>)

\* C1: with the remote version b known, a SwitchProtocolVersion(v) the wrapper takes
\* from the outbound queue is written to the transport as exactly one frame,
\* SwitchProtocolVersion(min(b, v)) in semver order, and nothing reaches the inbound
\* queue; the only other outcome is the transport refusing the write, which writes
\* nothing and ends the wrapper with the transport's error. The unmodified v is
\* never written when v > b.
C1_SwitchForwardedAsMin ==
    [][ (TakesSwitch /\ protocol_version # None) =>
          LET b == unwrap(protocol_version)
              v == Head(client_chan).version
          IN  /\ daemon_chan' = daemon_chan
              /\ \/ /\ conn_out' = Append(conn_out,
                                     EncodedClient(SwitchProtocolVersion(SemverMin(b, v))))
                    /\ wrapper_result' = Pending
                 \/ /\ conn_out' = conn_out
                    /\ wrapper_result' = Err([kind |-> "WsError"])
              /\ (SemverWeight(v) > SemverWeight(b) /\ conn_out' # conn_out)
                    => conn_out'[Len(conn_out')] # EncodedClient(SwitchProtocolVersion(v))
      ]_vars

\* A request for 2.0.0 was written as 1.3.0, the remote's version.
C1_Witness ==
    /\ protocol_version = Some(<<1,3,0>>)
    /\ client_log = << SwitchProtocolVersion(<<2,0,0>>) >>
    /\ conn_out = << EncodedClient(SwitchProtocolVersion(<<1,3,0>>)) >>

\* C2: with the remote version unknown, taking a SwitchProtocolVersion(v) writes no
\* frame to the transport, and exactly one SwitchProtocolVersionResponse(1.2.1) is
\* pushed to the inbound queue: at once when the queue has room, otherwise when the
\* suspended send is woken. Nothing is pushed only when the inbound receiver has
\* been dropped, which ends the wrapper with ChannelClosed.
C2_UnknownVersionAnsweredLocally ==
    [][ /\ (TakesSwitch /\ protocol_version = None) =>
            /\ conn_out' = conn_out
            /\ IF ~daemon_rx_open
               THEN wrapper_result' = Err([kind |-> "ChannelClosed"]) /\ daemon_chan' = daemon_chan
               ELSE IF Len(daemon_chan) < ChannelCap
               THEN /\ daemon_chan' =
                          Append(daemon_chan, SwitchProtocolVersionResponse(<<1,2,1>>))
                    /\ wrapper_pending' = None
                    /\ wrapper_result' = Pending
               ELSE /\ daemon_chan' = daemon_chan
                    /\ wrapper_pending' = Some(SwitchProtocolVersionResponse(<<1,2,1>>))
                    /\ wrapper_result' = Pending
        /\ (wrapper_pc = "sending" /\ wrapper_pc' # "sending") =>
            /\ conn_out' = conn_out
            /\ IF daemon_rx_open
               THEN daemon_chan' = Append(daemon_chan, unwrap(wrapper_pending))
               ELSE wrapper_result' = Err([kind |-> "ChannelClosed"]) /\ daemon_chan' = daemon_chan
      ]_vars

\* A request for 2.0.0 was answered locally with 1.2.1 and nothing was written.
C2_Witness ==
    /\ protocol_version = None
    /\ client_log = << SwitchProtocolVersion(<<2,0,0>>) >>
    /\ client_chan = <<>>
    /\ conn_out = <<>>
    /\ daemon_log = << SwitchProtocolVersionResponse(<<1,2,1>>) >>

(***************************************************************************)
(* Claims about the session negotiator (checked under SpecSession).        *)
(***************************************************************************)
\* C5: in create_session, once a copy-target create call has succeeded, the next
\* operation is connect_target for that very Copied target and create_session has
\* not returned in between; a Copied session is returned only after that pair.
C5_CopiedTargetConnected ==
    s_entry = "create_session" =>
        /\ \A i \in 1..Len(s_trace) :
              (s_trace[i].op = "copy_target" /\ s_trace[i].ok) =>
                 IF i = Len(s_trace)
                 THEN s_result = Pending
                 ELSE s_trace[i + 1] = [op |-> "connect_target", target |-> s_trace[i].target]
        /\ (s_result.tag = "Ok" /\ s_result.value.info.target.kind = "Copied") =>
              \E i \in 1..(Len(s_trace) - 1) :
                 /\ s_trace[i].op = "copy_target"
                 /\ s_trace[i].ok
                 /\ s_trace[i].target = s_result.value.info.target
                 /\ s_trace[i + 1] = [op |-> "connect_target",
                                      target |-> s_result.value.info.target]

\* create_session returned a session for a Copied target.
C5_Witness ==
    /\ s_entry = "create_session"
    /\ s_result.tag = "Ok"
    /\ s_result.value.info.target.kind = "Copied"

\* The license step of create_session is behind.
LicenseChecked ==
    /\ s_entry = "create_session"
    /\ s_operator # None
    /\ s_pc # "license"

\* Nothing beyond building the API and fetching the operator was done.
OnlyOperatorFetched ==
    \A i \in 1..Len(s_trace) : s_trace[i].op \in { "create_kube_api", "fetch_operator" }

\* C10 as stated: zero or negative days remaining always ends in NoLicense.
C10_AsStated ==
    (LicenseChecked /\ unwrap(s_operator).license.expire_at.days <= 0) =>
        /\ s_result = Err([kind |-> "NoLicense"])
        /\ OnlyOperatorFetched

\* C10 (amended): whenever the operator's license has expired (its expiration date
\* is past, which covers every negative number of days remaining), create_session
\* returns NoLicense and no capability check, certificate fetch, target fetch, copy
\* creation or transport opening happens on that attempt; a license that has not
\* expired, zero whole days remaining included, never yields NoLicense.
C10_ExpiredLicenseAborts ==
    LicenseChecked =>
        IF unwrap(s_operator).license.expire_at.good
        THEN s_result # Err([kind |-> "NoLicense"])
        ELSE /\ s_result = Err([kind |-> "NoLicense"])
             /\ OnlyOperatorFetched
             /\ s_pc = "returned"
             /\ wrapper_pc = "idle"

\* NoLicense was returned for a license that expired earlier today.
C10_Witness ==
    /\ s_result = Err([kind |-> "NoLicense"])
    /\ unwrap(s_operator).license.expire_at = [days |-> 0, good |-> FALSE]

\* The caller of create_session asks for a copied target and the operator in the
\* cluster does not advertise the feature (flag absent or false).
CopyTargetUnsupported ==
    /\ s_entry = "create_session"
    /\ s_config.copy_target.enabled
    /\ s_cluster.copy_target_enabled \in { None, Some(FALSE) }

\* The capability check of create_session has run.
ConfigChecked == \E i \in 1..Len(s_trace) : s_trace[i].op = "check_config"

\* C11: when copy target is requested and the operator does not advertise it,
\* create_session never fetches a certificate or a target, never creates a copied
\* target and never opens the transport, and once its capability check has run it
\* has returned UnsupportedFeature{"copy target", the operator's reported version}.
C11_UnsupportedCopyTargetAborts ==
    CopyTargetUnsupported =>
        /\ \A i \in 1..Len(s_trace) :
              s_trace[i].op \notin { "get_client_certificate", "fetch_target", "copy_target",
                                     "connect_target", "connect_ws" }
        /\ s_session = None
        /\ wrapper_pc = "idle"
        /\ s_result.tag # "Ok"
        /\ ConfigChecked =>
              /\ s_pc = "returned"
              /\ s_result = Err([kind |-> "UnsupportedFeature",
                                 feature |-> "copy target",
                                 operator_version |-> s_cluster.operator_version])

\* The check ran against an operator whose status has no copy-target flag at all.
C11_Witness ==
    /\ CopyTargetUnsupported
    /\ ConfigChecked
    /\ s_cluster.copy_target_enabled = None
    /\ s_result.tag = "Err"

(***************************************************************************)
(* Claims about the internal proxy and its keep-alive task (SpecProxy).    *)
(***************************************************************************)
\* The caller `who` of ping() is inside the timeout, waiting for its reply.
Waiting(who) == PingPc(who) = "ping_wait"

\* The probe of `who` was acknowledged: its caller goes on.
Satisfied(who) ==
    IF who = "startup"
    THEN p_pc = "spawn" /\ p_result = Pending
    ELSE sup_pc = "select" /\ sup_result = Pending

\* The probe of `who` failed with NoPong and its caller returned that error.
FailedNoPong(who) ==
    LET result == IF who = "startup" THEN p_result ELSE sup_result IN
    /\ PingPc(who) = IF who = "startup" THEN "returned" ELSE "done"
    /\ result.tag = "Err"
    /\ result.error.kind = "NoPong"

\* Pings queued on the main connection whose probe has not ended yet.
InFlight == Len(client_log) - ping_resolved

\* C6: when a probe of the keep-alive task has waited its whole 5-second deadline and
\* then ends without an acknowledgment having been received, the task cancels its
\* token, finishes with a NoPong error and drops the channel pair; after the task
\* has finished with an error no further Ping is queued on that pair.
C6_ProbeTimeoutSignalsFailure ==
    [][ /\ ( /\ sup_pc = "ping_wait"
             /\ ping_elapsed["supervisor"] = PING_TIMEOUT
             /\ sup_pc' # "ping_wait"
             /\ daemon_chan' = daemon_chan ) =>
                /\ sup_pc' = "done"
                /\ sup_result'.tag = "Err"
                /\ sup_result'.error.kind = "NoPong"
                /\ token_cancelled'
                /\ ~client_tx_open'
                /\ ~daemon_rx_open'
        /\ (sup_pc = "done" /\ sup_result.tag = "Err") =>
                /\ sup_pc' = "done"
                /\ sup_result' = sup_result
                /\ client_log' = client_log
                /\ Len(client_chan') <= Len(client_chan)
      ]_vars

\* The keep-alive task gave up on a probe at its deadline although another probe could
\* still have been sent.
C6_Witness ==
    /\ sup_pc = "done"
    /\ sup_result = Err(NoPong("Timeout in pong"))
    /\ token_cancelled
    /\ p_cancel_at = "none"
    /\ Len(client_log) < MaxPings

\* C7: while a probe waits for its reply, a received LogMessage leaves the probe
\* waiting (neither satisfied nor failed, its deadline not restarted), a received Pong
\* satisfies it, any other received message makes it fail with NoPong, and so does
\* the wait ending with nothing received (the peer closed the channel, or the
\* deadline passed).
C7_ProbeReplies ==
    [][ \A who \in Probers :
          Waiting(who) =>
            /\ (daemon_chan # <<>> /\ daemon_chan' = Tail(daemon_chan)) =>
                  IF Head(daemon_chan) = LogMessage
                  THEN /\ Waiting(who)'
                       /\ ping_elapsed' = ping_elapsed
                       /\ UNCHANGED <<p_result, sup_result, token_cancelled>>
                  ELSE IF Head(daemon_chan) = Pong
                  THEN Satisfied(who)'
                  ELSE FailedNoPong(who)'
            /\ (daemon_chan' = daemon_chan /\ ~Waiting(who)') =>
                  /\ FailedNoPong(who)'
                  /\ \/ daemon_chan = <<>> /\ wrapper_pc = "exited"
                     \/ ping_elapsed[who] = PING_TIMEOUT
      ]_vars

\* The startup probe consumed a LogMessage and was then satisfied by a Pong.
C7_Witness ==
    /\ daemon_log = <<LogMessage, Pong>>
    /\ daemon_chan = <<>>
    /\ Satisfied("startup")

C9_OneProbeInFlight ==
    p_pc # "idle" =>
        /\ InFlight \in { 0, 1 }
        /\ Cardinality({ who \in Probers : PingPc(who) \in { "ping_send", "ping_wait" } }) <= 1
        /\ sup_pc # "none" =>
              /\ p_pc \notin { "config", "connect_info", "listen", "connect", "ping_send",
                               "ping_wait" }
              /\ ping_resolved >= 1
              /\ Len(p_trace) >= 5
              /\ p_trace[5] = [op |-> "create_ping_loop"]

\* The keep-alive task waits for the reply to its second probe.
C9_Witness ==
    /\ sup_pc = "ping_wait"
    /\ Len(client_log) = 3
    /\ InFlight = 1

(***************************************************************************)
(* Claims about the handshake verifier (checked under SpecVerify).         *)
(***************************************************************************)
Lowered(s) == [i \in 1..Len(s) |-> to_ascii_lowercase(s[i])]

StatusValid == res.status = 101
UpgradeValid ==
    /\ res.headers["upgrade"] # None
    /\ Lowered(unwrap(res.headers["upgrade"])) = WEBSOCKET
ConnectionValidExact == res.headers["connection"] = Some(UPGRADE)
ConnectionValid ==
    /\ res.headers["connection"] # None
    /\ Lowered(unwrap(res.headers["connection"])) = Lowered(UPGRADE)
AcceptValid == res.headers["sec-websocket-accept"] = Some(derive_accept_key(key))
ProtocolValid == res.headers["sec-websocket-protocol"] = Some(WS_PROTOCOL)
BodyParses == res.body.kind = "error_response"

Rejected(kind) == verdict.tag = "Err" /\ verdict.error.kind = kind

\* The error a response with only its status invalid is rejected with.
StatusRejection ==
    IF BodyParses /\ res.status >= 400 /\ res.status <= 599
    THEN verdict = Err([kind |-> "Api", error_response |-> res.body.error])
    ELSE verdict = Err([kind |-> "ProtocolSwitch", status |-> res.status])

\* C3 as stated: the Connection header must equal 'Upgrade' byte for byte, and a
\* response whose only invalid part is its status is rejected with ProtocolSwitch.
C3_AsStated ==
    verdict # Pending =>
        /\ verdict.tag = "Ok" <=>
              (StatusValid /\ UpgradeValid /\ ConnectionValidExact /\ AcceptValid /\ ProtocolValid)
        /\ (~StatusValid /\ UpgradeValid /\ ConnectionValidExact /\ AcceptValid /\ ProtocolValid)
              => Rejected("ProtocolSwitch")
        /\ (StatusValid /\ ~UpgradeValid /\ ConnectionValidExact /\ AcceptValid /\ ProtocolValid)
              => Rejected("MissingUpgradeWebSocketHeader")
        /\ (StatusValid /\ UpgradeValid /\ ~ConnectionValidExact /\ AcceptValid /\ ProtocolValid)
              => Rejected("MissingConnectionUpgradeHeader")
        /\ (StatusValid /\ UpgradeValid /\ ConnectionValidExact /\ ~AcceptValid /\ ProtocolValid)
              => Rejected("SecWebSocketAcceptKeyMismatch")
        /\ (StatusValid /\ UpgradeValid /\ ConnectionValidExact /\ AcceptValid /\ ~ProtocolValid)
              => Rejected("SecWebSocketProtocolMismatch")

\* C3 (amended): verify_response accepts iff the status is 101, Upgrade equals
\* 'websocket' and Connection equals 'Upgrade', both ignoring ASCII case, the accept
\* key equals the value derived from the nonce and the sub-protocol equals
\* 'v4.channel.k8s.io'; the accepted value is the response itself. With exactly one
\* of the five invalid the error names that check, where an invalid status gives
\* ProtocolSwitch(status), or the typed API error when the status is 4xx/5xx and
\* the body parses.
C3_HandshakeAcceptsIffAllChecks ==
    verdict # Pending =>
        /\ verdict.tag = "Ok" <=>
              (StatusValid /\ UpgradeValid /\ ConnectionValid /\ AcceptValid /\ ProtocolValid)
        /\ verdict.tag = "Ok" => verdict.value = res
        /\ (~StatusValid /\ UpgradeValid /\ ConnectionValid /\ AcceptValid /\ ProtocolValid)
              => StatusRejection
        /\ (StatusValid /\ ~UpgradeValid /\ ConnectionValid /\ AcceptValid /\ ProtocolValid)
              => verdict = Err([kind |-> "MissingUpgradeWebSocketHeader"])
        /\ (StatusValid /\ UpgradeValid /\ ~ConnectionValid /\ AcceptValid /\ ProtocolValid)
              => verdict = Err([kind |-> "MissingConnectionUpgradeHeader"])
        /\ (StatusValid /\ UpgradeValid /\ ConnectionValid /\ ~AcceptValid /\ ProtocolValid)
              => verdict = Err([kind |-> "SecWebSocketAcceptKeyMismatch"])
        /\ (StatusValid /\ UpgradeValid /\ ConnectionValid /\ AcceptValid /\ ~ProtocolValid)
              => verdict = Err([kind |-> "SecWebSocketProtocolMismatch"])

\* A response accepted with a lower-case 'upgrade' Connection header.
C3_Witness ==
    /\ verdict.tag = "Ok"
    /\ res.headers["connection"] = Some(<<"u","p","g","r","a","d","e">>)
    /\ res.headers["upgrade"] = Some(<<"W","e","b","S","o","c","k","e","t">>)

InConnectAndPing == p_pc \in { "connect", "ping_send", "ping_wait" }

\* connect_and_ping returned an error to proxy(), which returned it.
ConnectAndPingFailed ==
    /\ p_pc = "returned"
    /\ p_trace # <<>>
    /\ p_trace[Len(p_trace)].op = "AgentConnection::new"

\* C12: connect_and_ping queues at most one Ping on the channel pair it created; it
\* returns the pair (both ends still held) only by receiving a Pong for that one
\* Ping, whether or not connect info was supplied; when it fails it returns the
\* error, the ends of the pair are dropped and no keep-alive task is ever given them.
C12_ConnectAndPing ==
    /\ [](InConnectAndPing => Len(client_log) <= 1 /\ sup_pc = "none")
    /\ [](p_pc = "spawn" =>
            /\ client_log = <<Ping>>
            /\ ping_resolved = 1
            /\ \E i \in 1..Len(daemon_log) : daemon_log[i] = Pong
            /\ client_tx_open /\ daemon_rx_open
            /\ p_result = Pending)
    /\ [](ConnectAndPingFailed =>
            /\ p_result.tag = "Err"
            /\ Len(client_log) <= 1
            /\ sup_pc = "none"
            /\ wrapper_pc # "idle" => (~client_tx_open /\ ~daemon_rx_open))
    /\ [][ (InConnectAndPing /\ p_pc' = "spawn") =>
              /\ p_pc = "ping_wait"
              /\ daemon_chan # <<>>
              /\ Head(daemon_chan) = Pong
              /\ daemon_chan' = Tail(daemon_chan) ]_vars

\* With connect info supplied, the pair was returned after one acknowledged Ping.
C12_Witness ==
    /\ p_pc = "spawn"
    /\ p_agent_connect_info # None
    /\ client_log = <<Ping>>
    /\ daemon_log = <<Pong>>

(***************************************************************************)
(* Further claims about the Connection Wrapper (checked under SpecWrapper).*)
(***************************************************************************)
\* The transport stream yields one more item in this step.
StreamYields == Len(conn_in') = Len(conn_in) + 1

\* The item the transport stream yields in this step.
Yielded == conn_in'[Len(conn_in')]

\* The item is a frame, and not a binary data frame.
NonDataFrame(item) ==
    /\ item # None
    /\ unwrap(item).tag = "Ok"
    /\ unwrap(item).value.frame # "Binary"

\* C13: when the transport yields a frame that is not a binary data frame (text,
\* ping, pong, close), the wrapper exits in that step with InvalidMessage carrying
\* the frame, nothing is pushed to the inbound queue for it, and nothing is pushed
\* afterwards.
C13_NonDataFrameTerminates ==
    [][ /\ (StreamYields /\ NonDataFrame(Yielded)) =>
              /\ wrapper_pc' = "exited"
              /\ wrapper_result' = Err([kind |-> "InvalidMessage",
                                        message |-> unwrap(Yielded).value])
              /\ daemon_log' = daemon_log
              /\ daemon_chan' = daemon_chan
        /\ wrapper_pc = "exited" =>
              /\ wrapper_pc' = "exited"
              /\ wrapper_result' = wrapper_result
              /\ daemon_log' = daemon_log
      ]_vars

\* The wrapper ended on a text frame that followed a delivered message.
C13_Witness ==
    /\ wrapper_pc = "exited"
    /\ wrapper_result.tag = "Err"
    /\ Len(conn_in) = 2
    /\ conn_in[2] = Some(Ok(TextFrame))
    /\ Len(daemon_log) = 1

\* C14 as stated: whatever made the wrapper's task exit, it attempted to send a close
\* frame on the transport before exiting.
C14_AsStated ==
    wrapper_pc = "exited" => close_attempted

\* s is a prefix of t / a suffix of t
IsPrefix(s, t) == Len(s) <= Len(t) /\ SubSeq(t, 1, Len(s)) = s
IsSuffix(s, t) == Len(s) <= Len(t) /\ SubSeq(t, Len(t) - Len(s) + 1, Len(t)) = s

\* The messages the wrapper has taken from the outbound queue, in the order they
\* were sent on the outbound sender.
Taken == SubSeq(client_log, 1, Len(client_log) - Len(client_chan))

\* The frame a taken message is due, if any: none for a message that cannot be
\* encoded and for a version switch answered locally.
FrameDue(m) ==
    IF m = Unrepresentable THEN <<>>
    ELSE IF m.type = "SwitchProtocolVersion"
    THEN IF protocol_version = None
         THEN <<>>
         ELSE << EncodedClient(SwitchProtocolVersion(
                     SemverMin(unwrap(protocol_version), m.version))) >>
    ELSE << EncodedClient(m) >>

RECURSIVE FramesDue(_)
FramesDue(ms) == IF ms = <<>> THEN <<>> ELSE FrameDue(Head(ms)) \o FramesDue(Tail(ms))

\* The data frames written to the transport, oldest first.
DataWritten == SelectSeq(conn_out, LAMBDA f : f.frame = "Binary")

\* The message an item of the transport stream is due, if any.
MessageDue(item) ==
    IF item = None THEN <<>>
    ELSE IF unwrap(item).tag # "Ok" THEN <<>>
    ELSE IF unwrap(item).value.frame # "Binary" THEN <<>>
    ELSE IF unwrap(item).value.payload = Garbage THEN <<>>
    ELSE << unwrap(item).value.payload[2] >>

RECURSIVE MessagesDue(_)
MessagesDue(items) ==
    IF items = <<>> THEN <<>> ELSE MessageDue(Head(items)) \o MessagesDue(Tail(items))

\* Version switches taken while the operator's version is unknown: each is due one
\* locally synthesized response.
SynthesizedDue ==
    IF protocol_version # None THEN 0
    ELSE Len(SelectSeq(Taken, LAMBDA m : m.type = "SwitchProtocolVersion"))

\* log is a prefix of some merge of `due` with at most n synthesized responses.
RECURSIVE Merges(_, _, _)
Merges(log, due, n) ==
    IF log = <<>> THEN TRUE
    ELSE \/ /\ due # <<>>
            /\ Head(log) = Head(due)
            /\ Merges(Tail(log), Tail(due), n)
         \/ /\ n > 0
            /\ Head(log) = SwitchProtocolVersionResponse(<<1, 2, 1>>)
            /\ Merges(Tail(log), due, n - 1)

C16_DroppedEndsStopWrapper ==
    (wrapper_pc # "idle" /\ ~client_tx_open /\ ~daemon_rx_open) ~> (wrapper_pc = "exited")

\* Both ends were dropped, and the wrapper left its loop and attempted the close frame.
C16_Witness ==
    /\ ~client_tx_open
    /\ ~daemon_rx_open
    /\ wrapper_pc = "exited"
    /\ close_attempted

\* The positions in p_trace at which proxy() performed `op`.
Performed(op) == { i \in 1..Len(p_trace) : p_trace[i].op = op }

\* C17: in every run of proxy() the port is written to standard output at most once;
\* it is written while the process is still attached, and the process detaches only
\* after the port was written.
C17_PortBeforeDetach ==
    /\ [](/\ Len(p_stdout) <= 1
          /\ Cardinality(Performed("detach_io")) <= 1
          /\ p_detached => p_stdout = <<LOCAL_PORT>>
          /\ \A i \in Performed("detach_io") :
                \E j \in Performed("print_port") : j < i)
    /\ [][ /\ p_stdout' # p_stdout => (~p_detached /\ ~p_detached')
           /\ (~p_detached /\ p_detached') => (p_stdout # <<>> /\ p_stdout' = p_stdout)
         ]_vars

\* The port was written and the process then detached.
C17_Witness ==
    /\ p_detached
    /\ p_stdout = <<LOCAL_PORT>>
    /\ Performed("print_port") = { 6 }
    /\ Performed("detach_io") = { 7 }

\* proxy() has started the accept loop (IntProxy::new reached).
AcceptLoopStarted == Performed("IntProxy::new") # {}

\* C18: the accept loop is started only after the startup probe on the main
\* connection was acknowledged by a Pong; when AgentConnection::new or the startup
\* probe fails, proxy() returns that error with the port not written, the process
\* not detached, no keep-alive task spawned and the accept loop not started.
C18_AcceptLoopAfterStartupProbe ==
    /\ []((AcceptLoopStarted \/ p_pc \in { "new", "run" }) =>
            /\ Len(client_log) >= 1
            /\ client_log[1] = Ping
            /\ ping_resolved >= 1
            /\ \E i \in 1..Len(daemon_log) : daemon_log[i] = Pong
            /\ Performed("create_ping_loop") # {})
    /\ [](ConnectAndPingFailed =>
            /\ p_result.tag = "Err"
            /\ p_result.error.kind \in { "AgentConnectionFailed", "NoPong", "SendError" }
            /\ p_stdout = <<>>
            /\ ~p_detached
            /\ sup_pc = "none"
            /\ Performed("create_ping_loop") = {}
            /\ ~AcceptLoopStarted)
    /\ [][ (p_pc \in { "ping_send", "ping_wait" } /\ p_pc' \notin { "ping_send", "ping_wait" })
              => \/ /\ p_pc' = "spawn"
                    /\ p_pc = "ping_wait"
                    /\ daemon_chan # <<>>
                    /\ Head(daemon_chan) = Pong
                 \/ /\ p_pc' = "returned"
                    /\ p_result'.tag = "Err" ]_vars

\* The startup probe failed and proxy() returned its error.
C18_Witness ==
    /\ ConnectAndPingFailed
    /\ p_result.tag = "Err"
    /\ p_result.error.kind = "NoPong"
    /\ client_log = <<Ping>>

\* The keep-alive task has detected a liveness failure: a ping() of its loop failed
\* and the task returned that error.
LivenessFailureDetected ==
    /\ sup_pc = "done"
    /\ sup_result.tag = "Err"

\* C20: once the keep-alive task has detected a liveness failure, proxy() never
\* returns success; when the accept loop then ends normally, proxy() returns exactly
\* the error the task returned.
C20_LivenessFailureIsFinalResult ==
    LivenessFailureDetected =>
        /\ token_cancelled
        /\ p_result.tag # "Ok"
        /\ (p_pc = "returned" /\ Performed("cancel") # {}) =>
              p_result = Err(sup_result.error)

\* The failure was detected while the accept loop was running; the loop then ended
\* normally and proxy() returned the NoPong error.
C20_Witness ==
    /\ p_pc = "returned"
    /\ p_cancel_at = "done"
    /\ LivenessFailureDetected
    /\ sup_result.error.kind = "NoPong"
    /\ p_result = Err(sup_result.error)

(***************************************************************************)
(* Claims about the shutdown of the internal proxy (SpecProxyAbnormal: the *)
(* keep-alive task may also end without returning).                        *)
(***************************************************************************)
\* proxy() has returned after its accept loop had been running.
ReturnedAfterAcceptLoop == p_pc = "returned" /\ Performed("IntProxy::run") # {}

\* What proxy() returns for the outcome of awaiting the keep-alive task.
JoinOutcome ==
    IF sup_result.tag = "Err" THEN Err(sup_result.error)
    ELSE IF sup_result.tag = "JoinError" THEN Err([kind |-> "AgentClosedConnection"])
    ELSE Ok("unit")

\* C19 as stated: whenever proxy() has returned after the accept loop finished,
\* normally or with an error, it had cancelled the keep-alive task and the task had
\* finished; a failed wait gave AgentClosedConnection.
C19_AsStated ==
    ReturnedAfterAcceptLoop =>
        /\ Performed("cancel") # {}
        /\ token_cancelled
        /\ sup_pc = "done"
        /\ sup_result.tag = "JoinError" => p_result = Err([kind |-> "AgentClosedConnection"])

\* C19 (amended): when the accept loop finishes normally, proxy() cancels the
\* keep-alive task and returns only once the task has finished, with
\* AgentClosedConnection if waiting on the task failed; when the accept loop ends
\* with an error, proxy() returns that error at once, without cancelling the task
\* and without waiting for it.
C19_ShutdownJoinsOnNormalEnd ==
    /\ [](p_pc = "join" => (token_cancelled /\ p_cancel_at # "none"))
    /\ []((ReturnedAfterAcceptLoop /\ Performed("cancel") # {}) =>
            /\ token_cancelled
            /\ sup_pc = "done"
            /\ p_result = JoinOutcome)
    /\ []((ReturnedAfterAcceptLoop /\ Performed("cancel") = {}) =>
            /\ p_result = Err([kind |-> "IntProxyError"])
            /\ p_cancel_at = "none")
    /\ [][ (p_pc = "run" /\ p_pc' # "run") =>
              \/ p_pc' = "cancel" /\ p_result' = Pending
              \/ /\ p_pc' = "returned"
                 /\ p_result' = Err([kind |-> "IntProxyError"])
                 /\ UNCHANGED <<token_cancelled, sup_pc, sup_result>> ]_vars

\* The accept loop ended normally, the task had ended abnormally, and proxy()
\* returned AgentClosedConnection.
C19_Witness ==
    /\ ReturnedAfterAcceptLoop
    /\ Performed("cancel") # {}
    /\ sup_result.tag = "JoinError"
    /\ p_result = Err([kind |-> "AgentClosedConnection"])


(***************************************************************************)
(* Claims about the main channel pair while the accept loop runs           *)
(* (SpecProxy).                                                            *)
(***************************************************************************)
\* proxy() is inside IntProxy::run: the accept loop is running.
AcceptLoopRunning == p_pc = "run"

\* The keep-alive task is alive and still owns both ends of the main channel pair.
HeldByKeepAlive ==
    /\ sup_pc \in { "spawned", "select", "ping_send", "ping_wait" }
    /\ client_tx_open
    /\ daemon_rx_open

\* C21 as stated: in every reachable state in which the accept loop is running, both
\* ends of the main channel pair are still held (not dropped) by the keep-alive task.
\* Violated: a probe of the keep-alive task fails while proxy() is in IntProxy::run;
\* the task returns Err and drops both ends, and the accept loop is still running.
C21_AsStated == AcceptLoopRunning => HeldByKeepAlive

(***************************************************************************)
(* Claims about the connection URL and the reattach entry point            *)
(* (SpecSession).                                                          *)
(***************************************************************************)
\* connect_target has built its request.
RequestBuilt == s_request # None

\* '/apis/<api_version>/proxy/namespaces/<namespace>/<plural>/<name>'
ProxyPathShape(path, name) ==
    /\ Len(path) = 7
    /\ path[1] = "apis"
    /\ path[3] = "proxy"
    /\ path[4] = "namespaces"
    /\ path[5] = namespace(s_config)
    /\ path[7] = name

\* '<resource_url>/<name>'
ResourcePathShape(path, plural, name) ==
    /\ Len(path) = Len(resource_url(s_config, plural)) + 1
    /\ SubSeq(path, 1, Len(path) - 1) = resource_url(s_config, plural)
    /\ path[Len(path)] = name
    /\ \A i \in 1..Len(path) : path[i] # "proxy"

\* the names of the query parameters, in order
QueryNames(query) == [i \in 1..Len(query) |-> query[i][1]]

\* the value of the one parameter called `name`
QueryValue(query, name) ==
    LET i == CHOOSE j \in 1..Len(query) : query[j][1] = name IN query[i][2]

\* The shape of a URL: which of the two paths it has and which parameters it carries.
UrlShape(uri) ==
    [proxied |-> Len(uri.path) >= 3 /\ uri.path[3] = "proxy",
     params |-> QueryNames(uri.query)]

\* C22: the connection URL of the request is determined by (proxy capability flag,
\* target kind): with the flag the path is /apis/<api_version>/proxy/namespaces/
\* <namespace>/<plural>/<name>, without it <resource_url>/<name>; a raw target carries
\* on_concurrent_steal=<value> and connect=true, a copied target connect=true only; so
\* the four cases give four distinct shapes, whichever entry point built the request.
C22_ConnectUrlShapes ==
    RequestBuilt =>
        LET session == unwrap(s_session)
            uri == unwrap(s_request).uri
            flag == "ProxyApi" \in session.metadata.operator_features
            raw == session.target.kind = "Raw"
            plural == IF raw THEN "targets" ELSE "copytargets"
        IN  /\ flag => ProxyPathShape(uri.path, session.target.name) /\ uri.path[6] = plural
            /\ ~flag => ResourcePathShape(uri.path, plural, session.target.name)
            /\ raw => /\ QueryNames(uri.query) = <<"on_concurrent_steal", "connect">>
                      /\ QueryValue(uri.query, "on_concurrent_steal") =
                            s_config.on_concurrent_steal
            /\ ~raw => QueryNames(uri.query) = <<"connect">>
            /\ QueryValue(uri.query, "connect") = "true"
            /\ UrlShape(uri) =
                  [proxied |-> flag,
                   params |-> IF raw THEN <<"on_concurrent_steal", "connect">>
                              ELSE <<"connect">>]

\* create_session built the request for a copy through the proxy API.
C22_Witness ==
    /\ RequestBuilt
    /\ s_entry = "create_session"
    /\ "ProxyApi" \in unwrap(s_session).metadata.operator_features
    /\ unwrap(s_session).target.kind = "Copied"
    /\ UrlShape(unwrap(s_request).uri) = [proxied |-> TRUE, params |-> <<"connect">>]

\* The operations the reattach entry point may perform.
ReattachOps == { "set_operator_properties", "create_kube_api", "connect_target", "connect_ws" }

\* C23: OperatorApi::connect fetches no operator status, checks no license and no
\* capability, fetches no certificate and no target and creates no copy: it builds the
\* request for exactly the target and metadata of the OperatorSessionInformation it was
\* given, and on success returns that same information, unchanged, with the channel
\* pair of a wrapper running at the protocol version recorded in it.
C23_ReattachSkipsResolution ==
    s_entry = "connect" =>
        LET given == unwrap(s_info) IN
        /\ \A i \in 1..Len(s_trace) : s_trace[i].op \in ReattachOps
        /\ s_pc \in { "start", "connect_target", "connect_ws", "returned" }
        /\ s_operator = None
        /\ s_certificate = None
        /\ s_metadata = None
        /\ s_messages = <<>>
        /\ s_session \in { None, s_info }
        /\ \A i \in 1..Len(s_trace) :
              s_trace[i].op = "connect_target" => s_trace[i].target = given.target
        /\ RequestBuilt =>
              /\ unwrap(s_request).uri = connect_url(s_config, given)
              /\ unwrap(s_request).headers["x-session-id"] = Some(given.metadata.session_id)
              /\ unwrap(s_request).headers["x-client-der"] =
                    (IF client_credentials(given.metadata).tag = "Ok"
                     THEN client_credentials(given.metadata).value ELSE None)
        /\ s_result.tag = "Ok" =>
              /\ s_result.value.info = given
              /\ wrapper_pc = "select"
              /\ protocol_version = given.metadata.protocol_version

\* connect returned the connection of a copied target it was given.
C23_Witness ==
    /\ s_entry = "connect"
    /\ s_result.tag = "Ok"
    /\ unwrap(s_info).target.kind = "Copied"
    /\ s_result.value.info = unwrap(s_info)
    /\ Len(s_trace) = 4
(***************************************************************************)
(* Claims about the fs configuration (SpecFs).                             *)
(***************************************************************************)
\* generate_config was called on the default user configuration with no environment
\* variable set.
DefaultGenerated ==
    /\ fs_pc = "generate_config"
    /\ fs_user = AdvancedFsUserConfig_default
    /\ fs_env = NoEnv

HeaderChecks ==
    << [ok |-> UpgradeValid, error |-> "MissingUpgradeWebSocketHeader"],
       [ok |-> ConnectionValid, error |-> "MissingConnectionUpgradeHeader"],
       [ok |-> AcceptValid, error |-> "SecWebSocketAcceptKeyMismatch"],
       [ok |-> ProtocolValid, error |-> "SecWebSocketProtocolMismatch"] >>

FailingChecks == SelectSeq(HeaderChecks, LAMBDA check : ~check.ok)

\* C25: when several header checks fail in one 'switching protocols' response, the
\* error returned is that of the first failing check in the order upgrade header,
\* connection header, accept key, sub-protocol; a later failing check never overrides
\* an earlier one.
C25_FirstFailingCheckReported ==
    (verdict # Pending /\ StatusValid /\ Len(FailingChecks) >= 2) =>
        /\ verdict = Err([kind |-> FailingChecks[1].error])
        /\ \A i \in 2..Len(FailingChecks) : ~Rejected(FailingChecks[i].error)

\* The connection header and the sub-protocol are both wrong, the rest is right: the
\* connection header is what is reported.
C25_Witness ==
    /\ verdict # Pending
    /\ StatusValid
    /\ UpgradeValid
    /\ ~ConnectionValid
    /\ AcceptValid
    /\ ~ProtocolValid
    /\ Rejected("MissingConnectionUpgradeHeader")

(***************************************************************************)
(* Claims about the version a Connection Wrapper holds (SpecWrapper).      *)
(***************************************************************************)
\* C26: the remote protocol version of a Connection Wrapper never changes after the
\* wrapper is created: no outbound message (SwitchProtocolVersion included) and no
\* inbound message (SwitchProtocolVersionResponse included) modifies it, so it never
\* increases within a session.
C26_ProtocolVersionFixed ==
    [][wrapper_pc # "idle" => protocol_version' = protocol_version]_vars

\* A wrapper created for 1.3.0 forwarded a switch to 1.2.1 and delivered the
\* operator's response for 1.2.1; it still holds 1.3.0.
C26_Witness ==
    /\ protocol_version = Some(<<1,3,0>>)
    /\ \E i \in 1..Len(conn_out) :
          conn_out[i] = EncodedClient(SwitchProtocolVersion(<<1,2,1>>))
    /\ \E i \in 1..Len(daemon_log) :
          daemon_log[i] = SwitchProtocolVersionResponse(<<1,2,1>>)
    /\ \E i \in 1..Len(conn_in) :
          conn_in[i] = Some(Ok(Binary(<<"bincode", SwitchProtocolVersionResponse(<<1,2,1>>)>>)))

(***************************************************************************)
(* Claims about a liveness failure and about shutdown while the accept     *)
(* loop runs (SpecProxyFair).                                              *)
(***************************************************************************)
\* The keep-alive task found the main channel pair dead: its probe failed and the
\* task returned the error.
SupervisorFailed == sup_pc = "done" /\ sup_result.tag = "Err"

\* proxy() has returned an error.
ProxyAborted == p_pc = "returned" /\ p_result.tag = "Err"

\* C27 as stated: a liveness failure of the main channel pair detected by the
\* keep-alive task while the accept loop is running (a probe was in flight during the
\* loop and failed) aborts the whole proxy: the accept loop does not keep serving and
\* proxy() eventually returns an error.
\* Violated: the failed task only cancels its own token and returns; proxy() stays
\* inside IntProxy::run, which is given neither the token nor the join handle, and
\* the accept loop goes on accepting layers.
C27_AsStated ==
    []((AcceptLoopRunning /\ sup_pc = "ping_wait") =>
            [](SupervisorFailed => <>ProxyAborted))

\* The keep-alive task was cancelled and has ended cleanly, dropping the channel ends
\* it owned, while the wrapper of the main connection is still running.
SupervisorCancelledAndGone ==
    /\ sup_pc = "done"
    /\ sup_result = Ok("unit")
    /\ ~client_tx_open
    /\ ~daemon_rx_open
    /\ wrapper_pc \in { "select", "sending" }

\* C28 as stated, its last part: once the cancelled keep-alive task has ended and
\* thereby dropped the channel ends it owned, the Connection Wrapper eventually sends
\* the close frame and exits.
\* Violated: before the wrapper sees its outbound queue closed, the write of a message
\* still queued fails, or the transport yields one more data frame whose push to the
\* dropped receiver fails; start() returns the error through `?`, without the close
\* frame.
C28_AsStated ==
    SupervisorCancelledAndGone ~> (wrapper_pc = "exited" /\ close_attempted)

(***************************************************************************)
(* Claims about a dropped inbound receiver (SpecWrapper).                  *)
(***************************************************************************)
\* The transport yields, in this step, a binary frame whose payload decodes.
YieldsDecodable ==
    /\ StreamYields
    /\ Yielded # None
    /\ unwrap(Yielded).tag = "Ok"
    /\ unwrap(Yielded).value.frame = "Binary"
    /\ decode(unwrap(Yielded).value.payload).tag = "Ok"

\* A push to the inbound queue that was suspended on a full queue is resumed.
ResumesPush ==
    /\ wrapper_pc = "sending"
    /\ wrapper_pc' # "sending"

\* start() returned ChannelClosed.
EndedChannelClosed ==
    wrapper_pc = "exited" /\ wrapper_result = Err([kind |-> "ChannelClosed"])

\* C29: when a successfully decoded inbound message cannot be delivered because the
\* inbound receiver has been dropped, the wrapper terminates with ChannelClosed even
\* if the outbound sender is still alive, and forwards no outbound message after that
\* point (what is still queued stays unwritten).
C29_DroppedReceiverTerminates ==
    [][ /\ ((YieldsDecodable \/ ResumesPush) /\ ~daemon_rx_open) =>
              /\ wrapper_pc' = "exited"
              /\ wrapper_result' = Err([kind |-> "ChannelClosed"])
              /\ daemon_chan' = daemon_chan
              /\ conn_out' = conn_out
        /\ EndedChannelClosed =>
              /\ wrapper_pc' = "exited"
              /\ wrapper_result' = wrapper_result
              /\ conn_out' = conn_out
      ]_vars

\* The wrapper ended on a decoded message it could not deliver, with the outbound
\* sender alive and a message still queued behind it.
C29_Witness ==
    /\ EndedChannelClosed
    /\ client_tx_open
    /\ client_chan # <<>>
    /\ conn_in # <<>>
    /\ conn_in[Len(conn_in)] = Some(Ok(Binary(<<"bincode", Pong>>)))
    /\ ~daemon_rx_open

(***************************************************************************)
(* Claims about the optional client certificate (SpecSession).             *)
(***************************************************************************)
\* The credential store was asked for the client certificate and failed.
CertificateFetchFailed ==
    \E i \in 1..Len(s_trace) :
        /\ s_trace[i].op = "get_client_certificate"
        /\ ~s_trace[i].ok

\* The certificate of the session is present and encodes.
CertificateEncodes ==
    LET certificate == unwrap(s_session).metadata.client_certificate IN
    certificate # None /\ unwrap(certificate).der.tag = "Ok"

\* C30: a failure to obtain the client certificate never aborts negotiation:
\* create_session goes on with no certificate and can still open the transport; and
\* the request of connect_target carries the x-client-der header exactly when a
\* certificate is present and encodes, an encoding failure leaving the header out
\* without failing the connection.
C30_CertificateOptional ==
    /\ [](/\ CertificateFetchFailed =>
                /\ s_certificate = None
                /\ s_metadata # None => unwrap(s_metadata).client_certificate = None
          /\ s_result.tag = "Err" =>
                s_result.error.kind \in { "CreateApiError", "KubeError", "NoLicense",
                                          "UnsupportedFeature", "ConnectRequestBuildError" }
          /\ RequestBuilt =>
                /\ (unwrap(s_request).headers["x-client-der"] # None) <=> CertificateEncodes
                /\ CertificateEncodes =>
                      unwrap(s_request).headers["x-client-der"] =
                          Some(<<"base64",
                                 unwrap(unwrap(s_session).metadata.client_certificate).der.value>>))
    /\ [][ /\ s_pc = "get_client_certificate" =>
                 /\ s_pc' = "metadata"
                 /\ s_result' = Pending
           /\ (s_pc = "connect_target" /\ s_pc' = "returned") =>
                 s_result' = Err([kind |-> "ConnectRequestBuildError"])
         ]_vars

\* create_session could not fetch the certificate and returned a connection whose
\* request carried no x-client-der header.
C30_Witness ==
    /\ s_entry = "create_session"
    /\ CertificateFetchFailed
    /\ s_result.tag = "Ok"
    /\ s_result.value.info.metadata.client_certificate = None
    /\ unwrap(s_request).headers["x-client-der"] = None
    /\ wrapper_pc = "select"

(***************************************************************************)
(* C31: the expiry warning of a trial license.                             *)
(***************************************************************************)
\* The license the negotiator read carries the trial marker in its name.
IsTrial == contains(unwrap(s_operator).license.name, TRIAL)

\* The expiry warnings reported so far.
ExpiryWarnings ==
    SelectSeq(s_messages,
              LAMBDA m : m.level = "warning" /\ m.text = "Operator license will expire")

\* C31: once create_session has checked a license that has not expired, a trial
\* license with at most CLOSE_TO_EXPIRATION_DAYS days remaining has produced exactly
\* one expiry warning and negotiation went on to the capability check; the warning
\* says "today" exactly when the days remaining are not positive, and "soon, in N
\* day" (with "days" for N above one) when they are positive.  A license that is not
\* a trial, or has more days remaining, never produces the expiry warning, and none is
\* produced before the license is checked or for an expired license.
C31_TrialExpiryWarning ==
    IF LicenseChecked /\ unwrap(s_operator).license.expire_at.good
    THEN LET days == unwrap(s_operator).license.expire_at.days IN
         IF IsTrial /\ days <= CLOSE_TO_EXPIRATION_DAYS
         THEN /\ Len(ExpiryWarnings) = 1
              /\ s_result # Err([kind |-> "NoLicense"])
              /\ s_pc = "check_config" \/ ConfigChecked
              /\ (ExpiryWarnings[1].when = <<"today">>) <=> (days <= 0)
              /\ days > 0 =>
                    ExpiryWarnings[1].when =
                        <<"soon, in", days, IF days > 1 THEN "days" ELSE "day">>
         ELSE ExpiryWarnings = <<>>
    ELSE ExpiryWarnings = <<>>

\* A trial license on its last day: the "today" warning was given and the
\* capability check ran.
C31_Witness ==
    /\ LicenseChecked
    /\ IsTrial
    /\ unwrap(s_operator).license.expire_at = [days |-> 0, good |-> TRUE]
    /\ ExpiryWarnings = << [level |-> "warning", text |-> "Operator license will expire",
                            when |-> <<"today">>] >>
    /\ ConfigChecked

(***************************************************************************)
(* C32: a target that cannot be fetched.                                   *)
(***************************************************************************)
\* create_session was asked for the named target itself, and fetching it failed.
TargetFetchFailed ==
    /\ s_entry = "create_session"
    /\ ~s_config.copy_target.enabled
    /\ \E i \in 1..Len(s_trace) : s_trace[i].op = "fetch_target" /\ ~s_trace[i].ok

\* C32: when copy target is not requested and fetching the named target fails, not
\* found included, create_session has returned a KubeError carrying the fetch error
\* and the operation FindingTarget; the failed fetch is the last thing it did: no
\* copy was requested, no session information or request was built, and no transport
\* was opened (no wrapper task exists).
C32_TargetFetchFailure ==
    TargetFetchFailed =>
        /\ s_pc = "returned"
        /\ s_result.tag = "Err"
        /\ s_result.error.kind = "KubeError"
        /\ s_result.error.operation = "FindingTarget"
        /\ s_result.error.error \in { "NotFound", "Forbidden" }
        /\ s_trace[Len(s_trace)].op = "fetch_target"
        /\ \A i \in 1..Len(s_trace) :
              s_trace[i].op \notin { "copy_target", "connect_target", "connect_ws" }
        /\ s_session = None
        /\ s_request = None
        /\ wrapper_pc = "idle"

\* The API answered that the named target does not exist.
C32_Witness ==
    /\ TargetFetchFailed
    /\ s_result = Err([kind |-> "KubeError", error |-> "NotFound",
                       operation |-> "FindingTarget"])

(***************************************************************************)
(* C33: the session id across the upgrade requests of one session.         *)
(***************************************************************************)
\* C33 as stated: no two upgrade requests carry the same x-session-id.
C33_AsStated ==
    \A i, j \in 1..Len(s_sent) : i # j => s_sent[i] # s_sent[j]

\* C33 (amended): the session id is drawn once, by the fresh negotiation
\* (create_session) when it builds the metadata, and is reused across reconnects:
\* every upgrade request made for the session, the negotiation's own and that of each
\* reattach (connect), carries the same x-session-id; a reattach sends the session_id
\* of the session information it was given and draws none.
C33_SessionIdKeptAcrossReconnects ==
    /\ \A i, j \in 1..Len(s_sent) : s_sent[i] = s_sent[j]
    /\ \A i \in 1..Len(s_sent) : s_sent[i] \in { Some(id) : id \in SessionIds }
    /\ s_entry = "connect" =>
          /\ s_metadata = None
          /\ \A i \in 1..Len(s_sent) : s_sent[i] = Some(unwrap(s_info).metadata.session_id)
          /\ s_request # None =>
                unwrap(s_request).headers["x-session-id"] =
                    Some(unwrap(s_info).metadata.session_id)
    /\ (s_entry = "create_session" /\ s_request # None) =>
          unwrap(s_request).headers["x-session-id"] = Some(unwrap(s_metadata).session_id)

\* A reattach opened the transport with the x-session-id an earlier upgrade request
\* had carried.
C33_Witness ==
    /\ s_entry = "connect"
    /\ s_pc = "returned"
    /\ s_result.tag = "Ok"
    /\ Len(s_sent) = 2
    /\ s_sent[1] = s_sent[2]

(***************************************************************************)
(* C34: the agent connect info read from the environment.                  *)
(***************************************************************************)
\* The environment variable is set and its text is not a JSON connect descriptor.
Malformed == p_env \notin { None, Some(NULL_JSON), Some(CONNECT_INFO_JSON) }

\* proxy() is past its call of get_agent_connect_info.
ConnectInfoRead == Performed("get_agent_connect_info") # {}

\* C34 as stated: proxy() reads the connect info at most once, before it binds the
\* listening socket and before it connects to the agent.  With the variable absent
\* the result is no connect info and proxy() goes on to the listening socket; with a
\* value that is present and malformed proxy() has returned ConnectInfoLoadFailed,
\* the read being the last thing it did: no socket bound, no agent connection
\* attempted, no accept loop built.  Whatever was read is what both
\* AgentConnection::new (the main connection) and IntProxy::new (the accept loop)
\* are given.
C34_AsStated ==
    /\ Cardinality(Performed("get_agent_connect_info")) <= 1
    /\ \A i \in Performed("create_listen_socket") \cup Performed("AgentConnection::new")
                \cup Performed("IntProxy::new") :
          \E j \in Performed("get_agent_connect_info") : j < i
    /\ ~ConnectInfoRead => p_agent_connect_info = None
    /\ (ConnectInfoRead /\ p_env = None) =>
          /\ p_agent_connect_info = None
          /\ p_pc = "listen" \/ Performed("create_listen_socket") # {}
    /\ (ConnectInfoRead /\ Malformed) =>
          /\ p_pc = "returned"
          /\ p_result.tag = "Err"
          /\ p_result.error.kind = "ConnectInfoLoadFailed"
          /\ p_trace[Len(p_trace)].op = "get_agent_connect_info"
          /\ Performed("create_listen_socket") = {}
          /\ Performed("AgentConnection::new") = {}
          /\ Performed("IntProxy::new") = {}
          /\ wrapper_pc = "idle"
          /\ sup_pc = "none"
    /\ \A i \in Performed("AgentConnection::new") \cup Performed("IntProxy::new") :
          p_trace[i].info = p_agent_connect_info

(***************************************************************************)
(* C35: every probe ends within its deadline.                              *)
(***************************************************************************)
\* The caller `who` is inside the timeout of ping() before and after the step.
StillWaiting(who) ==
    /\ Waiting(who)
    /\ (IF who = "startup" THEN p_pc' ELSE sup_pc') = "ping_wait"

\* The caller `who` leaves the timeout of ping() in the step.
ProbeEnds(who) ==
    /\ Waiting(who)
    /\ (IF who = "startup" THEN p_pc' ELSE sup_pc') # "ping_wait"

\* In the next state the probe of `who` has succeeded, or its caller holds the error.
EndedWithResult(who) ==
    IF who = "startup"
    THEN \/ p_pc' = "spawn" /\ p_result' = Pending
         \/ p_pc' = "returned" /\ p_result'.tag = "Err"
    ELSE \/ sup_pc' = "select" /\ sup_result' = Pending
         \/ sup_pc' = "done" /\ sup_result'.tag = "Err"

\* C35: once ping() has queued its Ping, the time it has waited never exceeds
\* PING_TIMEOUT seconds and is never set back while it waits, whatever arrives (a
\* LogMessage does not restart the deadline); the wait ends only with success or
\* with an error held by the caller; and every wait does end.
C35_ProbeTerminates ==
    /\ [](\A who \in Probers : Waiting(who) => ping_elapsed[who] <= PING_TIMEOUT)
    /\ [][\A who \in Probers :
            /\ StillWaiting(who) => ping_elapsed'[who] >= ping_elapsed[who]
            /\ ProbeEnds(who) => EndedWithResult(who)]_vars
    /\ \A who \in Probers : Waiting(who) ~> ~Waiting(who)

\* The peer sent LogMessage and never Pong; the startup probe took the LogMessage
\* from the queue and ended at its deadline.
C35_Witness ==
    /\ p_result = Err(NoPong("Timeout in pong"))
    /\ \E i \in 1..Len(daemon_log) : daemon_log[i] = LogMessage
    /\ \A i \in 1..Len(daemon_log) : daemon_log[i] # Pong
    /\ daemon_chan = <<>>

(***************************************************************************)
(* C36: the two bounded queues of a channel pair.                          *)
(***************************************************************************)
\* The wrapper is suspended in daemon_tx.send on a full inbound queue and the
\* consumer in client_tx.send on a full outbound queue; the consumer holds both its
\* ends and the wrapper has met no error.
MutuallyBlocked ==
    /\ wrapper_pc = "sending"
    /\ wrapper_pending # None
    /\ Len(daemon_chan) = ChannelCap
    /\ consumer_blocked # None
    /\ Len(client_chan) = ChannelCap
    /\ client_tx_open
    /\ daemon_rx_open
    /\ wrapper_result = Pending

\* C36 as stated: the wrapper task and its consumer are never suspended on each
\* other: no reachable state has the wrapper delivering to a full inbound queue while
\* the consumer sends to a full outbound queue, both ends alive and the transport
\* healthy.
C36_AsStated == ~MutuallyBlocked
====
